---- MODULE Spec2Model ----
(***************************************************************************)
(* A model of the zlog logging facade (package zlog): the ZLogger type of  *)
(* zlog.go, its construction, its 21 log methods, SetLevel, SetOutput,     *)
(* AddOtelHooks, and the context field extractors.                         *)
(*                                                                         *)
(* External collaborators are modelled by the part of their contract the   *)
(* facade uses:                                                            *)
(*   - zerolog.Logger: a value holding a writer, a minimum level and a     *)
(*     context of fields; an event at level l is written iff l is at or    *)
(*     above the logger's level; Fatal() writes the event and then calls   *)
(*     os.Exit(1);                                                         *)
(*   - io.Writer sinks: the number of records each sink has received;      *)
(*   - OpenTelemetry spans: the events added and the status set.           *)
(***************************************************************************)
EXTENDS Integers, Sequences, FiniteSets, TLC

\* ------------------------------------------------------------------ bounds

\* A log call is enabled while fewer than MaxRecords records have been written
\* to the sinks; a context-aware one, while also fewer than MaxEvents events
\* have been added to the spans.
MaxRecords == 2
MaxEvents == 1

\* ------------------------------------------------- levels (hertzlog, zerolog)

\* hertzlog.Level: the seven-level scheme, in increasing severity.
LevelTrace == 0
LevelDebug == 1
LevelInfo == 2
LevelNotice == 3
LevelWarn == 4
LevelError == 5
LevelFatal == 6

HertzLevels == LevelTrace..LevelFatal

\* zerolog.Level: the engine's scheme (Trace is below Debug).
TraceLevel == -1
DebugLevel == 0
InfoLevel == 1
WarnLevel == 2
ErrorLevel == 3
FatalLevel == 4

\* FormatType
ConsoleFormat == 0
JSONFormat == 1

FormatTypes == {ConsoleFormat, JSONFormat}

\* const LogIDKey, ReqIDKey
LogIDKey == "request_id"
ReqIDKey == "X-Request-ID"

\* toZerologLevel with Notice mapped below Warn, to Info.
toZerologLevel_NoticeAsInfo(level) ==
    CASE level = LevelTrace -> TraceLevel
      [] level = LevelDebug -> DebugLevel
      [] level \in {LevelInfo, LevelNotice} -> InfoLevel
      [] level = LevelWarn -> WarnLevel
      [] level = LevelError -> ErrorLevel
      [] level = LevelFatal -> FatalLevel
      [] OTHER -> InfoLevel

\* toZerologLevel without its default: a level outside the seven maps to the
\* engine level of the same number.
toZerologLevel_NoDefault(level) ==
    CASE level = LevelTrace -> TraceLevel
      [] level = LevelDebug -> DebugLevel
      [] level = LevelInfo -> InfoLevel
      [] level \in {LevelNotice, LevelWarn} -> WarnLevel
      [] level = LevelError -> ErrorLevel
      [] level = LevelFatal -> FatalLevel
      [] OTHER -> level

\* toZerologLevel(level)
toZerologLevel(level) ==
    CASE level = LevelTrace -> TraceLevel
      [] level = LevelDebug -> DebugLevel
      [] level = LevelInfo -> InfoLevel
      [] level \in {LevelNotice, LevelWarn} -> WarnLevel
      [] level = LevelError -> ErrorLevel
      [] level = LevelFatal -> FatalLevel
      [] OTHER -> InfoLevel

\* fromZerologLevel(level)
fromZerologLevel(level) ==
    CASE level = TraceLevel -> LevelTrace
      [] level = DebugLevel -> LevelDebug
      [] level = InfoLevel -> LevelInfo
      [] level = WarnLevel -> LevelNotice
      [] level = ErrorLevel -> LevelError
      [] level = FatalLevel -> LevelFatal
      [] OTHER -> LevelInfo

\* zerolog.Level.String(): the level name written into a record.
LevelString(zlevel) ==
    CASE zlevel = TraceLevel -> "trace"
      [] zlevel = DebugLevel -> "debug"
      [] zlevel = InfoLevel -> "info"
      [] zlevel = WarnLevel -> "warn"
      [] zlevel = ErrorLevel -> "error"
      [] zlevel = FatalLevel -> "fatal"
      [] OTHER -> ""

\* --------------------------------------------------------------- formatting

HexDigits == <<"0", "1", "2", "3", "4", "5", "6", "7",
               "8", "9", "a", "b", "c", "d", "e", "f">>

\* fmt.Sprintf("%02x", uint8(n)): two lowercase hex characters.
Fmt02x(n) == HexDigits[((n % 256) \div 16) + 1] \o HexDigits[(n % 16) + 1]

\* TraceID.String() / SpanID.String(): lowercase hex of the id's bytes (ids are
\* one byte wide in the model, 16 and 8 bytes wide in the library).
IDString(id) == Fmt02x(id)

\* TraceID.IsValid() / SpanID.IsValid(): the id is not all zero.
IDIsValid(id) == id # 0

\* fmt.Sprintf("%v", v) of a string operand.
FmtV(v) == v

\* fmt.Sprint(v...) of string operands: they are concatenated.
RECURSIVE Sprint(_)
Sprint(v) == IF v = <<>> THEN "" ELSE Head(v) \o Sprint(Tail(v))

\* fmt.Sprintf(format, v...): format is a sequence of pieces, "%v" is a verb
\* that consumes the next operand; a verb without operand prints %!v(MISSING),
\* operands left over are reported at the end.
RECURSIVE SprintfExtra(_)
SprintfExtra(v) ==
    IF v = <<>> THEN ""
    ELSE "string=" \o Head(v) \o (IF Tail(v) = <<>> THEN "" ELSE ", ")
         \o SprintfExtra(Tail(v))

RECURSIVE Sprintf(_, _)
Sprintf(format, v) ==
    IF format = <<>>
    THEN IF v = <<>> THEN "" ELSE "%!(EXTRA " \o SprintfExtra(v) \o ")"
    ELSE IF Head(format) = "%v"
         THEN IF v = <<>>
              THEN "%!v(MISSING)" \o Sprintf(Tail(format), v)
              ELSE FmtV(Head(v)) \o Sprintf(Tail(format), Tail(v))
         ELSE Head(format) \o Sprintf(Tail(format), v)

\* ------------------------------------------------ contexts, spans and sinks

\* Destination sinks (io.Writer): os.Stdout, the default of New, and a buffer.
Stdout == "stdout"
Sinks == {Stdout, "buf"}

\* A span object: its name and its immutable span context (trace id, span id
\* and trace flags; the ids are one byte wide in the model).
MkSpan(name, traceID, spanID, traceFlags) ==
    [name |-> name, traceID |-> traceID, spanID |-> spanID,
     traceFlags |-> traceFlags]

\* NoSpan is the no-op span trace.SpanFromContext returns when the context
\* carries none: its span context is all zero. SpanA is valid and sampled,
\* SpanC has an all-zero trace id.
NoSpan == MkSpan("noop", 0, 0, 0)
SpanA == MkSpan("sA", 171, 205, 1)
SpanC == MkSpan("sC", 0, 86, 1)
SpanNames == {"sA", "sC"}

\* span.SpanContext()
SpanContextOf(span) ==
    [traceID |-> span.traceID, spanID |-> span.spanID,
     traceFlags |-> span.traceFlags]

\* SpanContext.IsValid(): both the trace id and the span id are valid.
SpanContextIsValid(sc) == IDIsValid(sc.traceID) /\ IDIsValid(sc.spanID)

NoValues == [k \in {} |-> ""]

\* A context.Context: nil or not, the values stored in it by key, and the span
\* it carries.
MkCtx(isNil, values, span) == [nil |-> isNil, values |-> values, span |-> span]

NilCtx == MkCtx(TRUE, NoValues, NoSpan)
Background == MkCtx(FALSE, NoValues, NoSpan)
\* context.WithValue(context.Background(), "request_id", "12345")
ReadmeCtx == MkCtx(FALSE, [k \in {"request_id"} |-> "12345"], NoSpan)
XReqCtx == MkCtx(FALSE, [k \in {ReqIDKey} |-> "r-1"], SpanC)
TracedCtx == MkCtx(FALSE, [k \in {ReqIDKey, "request_id"} |-> "r-2"], SpanA)

Contexts == {NilCtx, Background, ReadmeCtx, XReqCtx, TracedCtx}

\* ctx.Value(key): nil ("<nil>") when the key is not set.
Nil == "<nil>"
CtxValue(ctx, key) == IF key \in DOMAIN ctx.values THEN ctx.values[key] ELSE Nil

\* trace.SpanFromContext(ctx): the no-op span for a nil context.
SpanFromContext(ctx) == IF ctx.nil THEN NoSpan ELSE ctx.span

\* Arguments of the calls: v of the plain methods, (format, v) of the others.
PlainArgs == {<<"m", "1">>}
Formats == {<<"m=", "%v">>}
FormatArgs == {<<"1">>}

\* Enricher lists given to WithZerologOptions: each enricher adds one field to
\* the logger's context.
EnricherLists == {<<>>, <<<<"service", "svc">>>>}

\* ------------------------------------------------------------------- state

VARIABLES
    zl,       \* the ZLogger: logger (zerolog.Logger), level, tp, format
    written,  \* per sink, the number of records written to it
    spans,    \* per span, the number of events added to it and its status
    exited,   \* the process has terminated (os.Exit)
    last,     \* the operation that ran last and what it did
    lj,       \* the lumberjack.Logger of a rotating sink: policy, file handle, size
    fs,       \* the file system at the log file's path
    rl,       \* the RotatingLogger: writer, config (its baseLogger is zl)
    h,        \* the HlogAdapter: logger
    call,     \* the call made on a wrapper (HlogAdapter): method and arguments
    g         \* the goroutines running SetLevel and SetOutput: position, locals

vars == <<zl, written, spans, exited, last, lj, fs, rl, h, call, g>>

\* ------------------------------------------------- the engine (zerolog.Logger)

\* zerolog.New(w).Level(l).With().Timestamp().CallerWithSkipFrameCount(3).Logger()
\* w is the raw sink (JSON lines) or a ConsoleWriter around it.
NewEngine(out, console, timeFormat, level) ==
    [w |-> [out |-> out, console |-> console, timeFormat |-> timeFormat],
     level |-> level,
     context |-> <<<<"time", "now">>, <<"caller", "skip3">>>>]

\* zerolog.Logger.Level(l): a copy of the logger with minimum level l.
WithLevelOf(logger, level) == [logger EXCEPT !.level = level]

\* logger.With().Fields(fields).Logger(): the fields, in key order, are added
\* to the context of a copy of the logger.
RECURSIVE SortedPairs(_, _)
SortedPairs(fields, keys) ==
    IF keys = <<>> THEN <<>>
    ELSE IF Head(keys) \in DOMAIN fields
         THEN <<<<Head(keys), FmtV(fields[Head(keys)])>>>>
              \o SortedPairs(fields, Tail(keys))
         ELSE SortedPairs(fields, Tail(keys))

KeyOrder == <<LogIDKey, "span_id", "trace_flags", "trace_id">>

WithFields(logger, fields) ==
    [logger EXCEPT !.context = @ \o SortedPairs(fields, KeyOrder)]

\* Logger.should(lvl): the event is written iff its level is at or above the
\* logger's level (zerolog's global level is left at its initial value, Trace,
\* which filters nothing).
should(logger, lvl) == lvl >= logger.level

\* A nil error.
NoError == "<nil>"

\* The record an enabled event writes.
NoRecord == [level |-> "", message |-> "", context |-> <<>>,
             fields |-> NoValues, json |-> FALSE, timeFormat |-> ""]

Record(logger, lvl, fields, msg) ==
    [level |-> LevelString(lvl), message |-> msg, context |-> logger.context,
     fields |-> [k \in DOMAIN fields |-> FmtV(fields[k])],
     json |-> ~logger.w.console, timeFormat |-> logger.w.timeFormat]

\* ------------------------------------------------ the bytes a record is written as

\* The JSON encoder's string escaping (the quote, the backslash and the line
\* break are the characters of the model's strings it changes).
RECURSIVE JSONEscape(_)
JSONEscape(str) ==
    IF Len(str) = 0 THEN ""
    ELSE LET c == SubSeq(str, 1, 1)
         IN (CASE c = "\n" -> "\\n"
               [] c = "\"" -> "\\\""
               [] c = "\\" -> "\\\\"
               [] OTHER -> c) \o JSONEscape(SubSeq(str, 2, Len(str)))

\* "key":"value"
JSONPair(key, value) ==
    "\"" \o JSONEscape(key) \o "\":\"" \o JSONEscape(value) \o "\""

RECURSIVE JSONPairs(_)
JSONPairs(pairs) ==
    IF pairs = <<>> THEN ""
    ELSE JSONPair(Head(pairs)[1], Head(pairs)[2])
         \o (IF Tail(pairs) = <<>> THEN "" ELSE ",") \o JSONPairs(Tail(pairs))

\* The line a JSON logger writes for a record: the level, the fields of the
\* logger's context, the fields of the event, the message unless it is empty,
\* and a line break.
RenderJSON(rec) ==
    "{" \o JSONPairs(<<<<"level", rec.level>>>>
                     \o rec.context
                     \o SortedPairs(rec.fields, KeyOrder)
                     \o (IF rec.message = "" THEN <<>>
                         ELSE <<<<"message", rec.message>>>>))
        \o "}\n"

\* FormatLevel of New and SetOutput: fmt.Sprintf("%-6s", strings.ToUpper(ll))
FormatLevel(ll) ==
    CASE ll = "trace" -> "TRACE "
      [] ll = "debug" -> "DEBUG "
      [] ll = "info" -> "INFO  "
      [] ll = "warn" -> "WARN  "
      [] ll = "error" -> "ERROR "
      [] ll = "fatal" -> "FATAL "
      [] OTHER -> "      "

\* The ConsoleWriter quotes a field value that holds a space, a quote, a
\* backslash or a control character.
RECURSIVE needsQuote(_)
needsQuote(str) ==
    /\ Len(str) > 0
    /\ \/ SubSeq(str, 1, 1) \in {" ", "\n", "\"", "\\"}
       \/ needsQuote(SubSeq(str, 2, Len(str)))

\* The value the ConsoleWriter finds under a key once it has decoded the
\* record: of several fields of one key, the last.
RECURSIVE LastValue(_, _, _)
LastValue(pairs, key, found) ==
    IF pairs = <<>> THEN found
    ELSE LastValue(Tail(pairs), key,
                   IF Head(pairs)[1] = key THEN Head(pairs)[2] ELSE found)

\* The fields the ConsoleWriter writes after the message, in key order.
ConsoleKeyOrder == <<LogIDKey, "service", "span_id", "trace_flags", "trace_id">>

RECURSIVE ConsoleFields(_, _)
ConsoleFields(pairs, keys) ==
    IF keys = <<>> THEN ""
    ELSE LET value == LastValue(pairs, Head(keys), Nil)
         IN (IF value = Nil THEN ""
             ELSE " " \o Head(keys) \o "="
                  \o (IF needsQuote(value)
                      THEN "\"" \o JSONEscape(value) \o "\"" ELSE value))
            \o ConsoleFields(pairs, Tail(keys))

\* The text a console logger writes for a record: the timestamp in the
\* writer's time format, the level, the caller, the message as it is, the
\* fields, and a line break (the colour codes are left out).
RenderConsole(rec) ==
    LET pairs == rec.context \o SortedPairs(rec.fields, KeyOrder)
    IN rec.timeFormat \o "(" \o LastValue(pairs, "time", "") \o ") "
       \o FormatLevel(rec.level) \o " "
       \o LastValue(pairs, "caller", "") \o " > "
       \o rec.message
       \o ConsoleFields(pairs, ConsoleKeyOrder) \o "\n"

\* The bytes the logger's writer receives for a record.
Render(rec) == IF rec.json THEN RenderJSON(rec) ELSE RenderConsole(rec)

\* ------------------------------------ the rotating sink (lumberjack.Logger)

\* The sink a rotating logger writes to: the *lumberjack.Logger.
Lumberjack == "lumberjack"

\* RotateConfigOption: the field an option sets and the value it sets it to.
WithMaxSize(maxSize) == [field |-> "MaxSize", value |-> maxSize]
WithMaxBackups(maxBackups) == [field |-> "MaxBackups", value |-> maxBackups]
WithMaxAge(maxAge) == [field |-> "MaxAge", value |-> maxAge]

RECURSIVE ApplyRotateOptions(_, _)
ApplyRotateOptions(c, opts) ==
    IF opts = <<>> THEN c
    ELSE ApplyRotateOptions([c EXCEPT ![Head(opts).field] = Head(opts).value],
                            Tail(opts))

\* GetDefaultRotateConfig(filename, opts...)
GetDefaultRotateConfig(filename, opts) ==
    ApplyRotateOptions([Filename |-> filename, MaxSize |-> 20, MaxBackups |-> 5,
                        MaxAge |-> 10, Compress |-> TRUE, LocalTime |-> TRUE],
                       opts)

\* &lumberjack.Logger{Filename: config.Filename, ...}: the policy is copied
\* from the config; no file is open and nothing on disk is touched.
NewLumberjack(config) ==
    [Filename |-> config.Filename, MaxSize |-> config.MaxSize,
     MaxBackups |-> config.MaxBackups, MaxAge |-> config.MaxAge,
     Compress |-> config.Compress, LocalTime |-> config.LocalTime,
     open |-> FALSE, size |-> 0, millPending |-> FALSE]

\* The zero lumberjack.Logger, of a program that builds no rotating sink.
NoLumberjack ==
    [Filename |-> "", MaxSize |-> 0, MaxBackups |-> 0, MaxAge |-> 0,
     Compress |-> FALSE, LocalTime |-> FALSE, open |-> FALSE, size |-> 0,
     millPending |-> FALSE]

\* The file system at the log file's path: whether files can be created,
\* renamed, opened and written there (usable), whether the parent directory
\* exists, whether the live log file exists and its size, and the backup
\* files: the age of each, newest first (a backup's name is the log file's name
\* with the clock reading of its rotation, so no two backups have the same
\* age). Sizes are counted in units of which a record takes one, ages in
\* readings of the clock, which is also what MaxAge counts in. `rotations`
\* counts the rotations done since the program started.
MkFS(usable, dir, exists, size) ==
    [usable |-> usable, dir |-> dir, exists |-> exists, size |-> size,
     backups |-> <<>>, rotations |-> 0]

\* The result of an operation of the lumberjack.Logger.
LjResult(l, f, err) == [lj |-> l, fs |-> f, err |-> err]

\* Logger.max(): the default maximum size when MaxSize is 0.
max(l) == IF l.MaxSize = 0 THEN 100 ELSE l.MaxSize

\* Logger.mill(): the retention pass is requested from the mill goroutine
\* (a send on millCh, which holds one request); the caller does not wait.
mill(l) == [l EXCEPT !.millPending = TRUE]

\* Logger.millRunOnce(): the backups kept by one retention pass, newest
\* first: the MaxBackups newest when MaxBackups is set, and of those the ones
\* not older than MaxAge when MaxAge is set. (Compress renames what is kept.)
millRunOnce(l, backups) ==
    LET counted == IF l.MaxBackups > 0 /\ l.MaxBackups < Len(backups)
                   THEN SubSeq(backups, 1, l.MaxBackups) ELSE backups
        IsYoung(age) == age <= l.MaxAge
    IN IF l.MaxAge > 0 THEN SelectSeq(counted, IsYoung) ELSE counted

\* os.Rename(name, backupName(name, l.LocalTime)): the live file becomes the
\* backup named after the current clock reading, and replaces a backup made
\* at the same reading.
backupName(backups) ==
    LET IsOlder(age) == age # 0 IN <<0>> \o SelectSeq(backups, IsOlder)

\* Logger.close(): the file handle is dropped.
close(l) == [l EXCEPT !.open = FALSE]

\* Logger.openNew(): os.MkdirAll of the parent directory, the live file (if
\* any) renamed to a backup, and a fresh file opened under the original name.
openNew(l, f) ==
    IF ~f.usable
    THEN LjResult(l, f, IF f.dir THEN "can't open new logfile"
                        ELSE "can't make directories for new logfile")
    ELSE LjResult([l EXCEPT !.open = TRUE, !.size = 0],
                  [f EXCEPT !.dir = TRUE, !.exists = TRUE, !.size = 0,
                            !.backups = IF f.exists THEN backupName(@) ELSE @],
                  NoError)

\* Logger.rotate(): close, then openNew, then mill.
rotate(l, f) ==
    LET o == openNew(close(l), f)
    IN IF o.err # NoError THEN o
       ELSE LjResult(mill(o.lj), [o.fs EXCEPT !.rotations = @ + 1], NoError)

\* Logger.openExistingOrNew(writeLen): mill, then the file is created, rotated
\* or opened for appending.
openExistingOrNew(l, f, writeLen) ==
    LET m == mill(l)
    IN IF ~f.exists THEN openNew(m, f)
       ELSE IF f.size + writeLen >= max(m) THEN rotate(m, f)
       ELSE IF f.usable
            THEN LjResult([m EXCEPT !.open = TRUE, !.size = f.size], f, NoError)
            ELSE openNew(m, f)

\* Logger.Write that appends whatever the size of the file.
LoggerWrite_NoRotation(l, f, writeLen) ==
    LET o == IF l.open THEN LjResult(l, f, NoError)
             ELSE openExistingOrNew(l, f, 0)
    IN IF o.err # NoError THEN o
       ELSE LjResult([o.lj EXCEPT !.size = @ + writeLen],
                     [o.fs EXCEPT !.size = @ + writeLen], NoError)

\* Logger.Write(p) with len(p) = writeLen: the file is opened on the first
\* write, rotated when the write would exceed the maximum size, and written.
LoggerWrite(l, f, writeLen) ==
    IF writeLen > max(l)
    THEN LjResult(l, f, "write length exceeds maximum file size")
    ELSE LET o == IF l.open THEN LjResult(l, f, NoError)
                  ELSE openExistingOrNew(l, f, writeLen)
         IN IF o.err # NoError THEN o
            ELSE LET r == IF o.lj.size + writeLen > max(o.lj)
                          THEN rotate(o.lj, o.fs) ELSE o
                 IN IF r.err # NoError THEN r
                    ELSE LjResult([r.lj EXCEPT !.size = @ + writeLen],
                                  [r.fs EXCEPT !.size = @ + writeLen], NoError)

\* Logger.Rotate()
LoggerRotate(l, f) == rotate(l, f)

\* ------------------------------------------------------------ construction

\* The format switch with the JSON case lost: a console engine for any format.
NewLoggerFor_AlwaysConsole(format, out, level) ==
    NewEngine(out, TRUE, "RFC3339", toZerologLevel(level))

\* The engine New and SetOutput build for a format.
\* New (format switch)
NewLoggerFor(format, out, level) ==
    CASE format = JSONFormat -> NewEngine(out, FALSE, "", toZerologLevel(level))
      [] format = ConsoleFormat -> NewEngine(out, TRUE, "RFC3339", toZerologLevel(level))
      [] OTHER -> NewEngine(out, TRUE, "RFC3339", toZerologLevel(level))

RECURSIVE ApplyEnrichers(_, _)
ApplyEnrichers(logger, enrichers) ==
    IF enrichers = <<>> THEN logger
    ELSE ApplyEnrichers([logger EXCEPT !.context = Append(@, Head(enrichers))],
                        Tail(enrichers))

\* New(options...)
New(output, level, format, enrichers) ==
    [logger |-> ApplyEnrichers(NewLoggerFor(format, output, level), enrichers),
     level |-> level,
     tp |-> "noop",
     format |-> format]

\* Option: the field of the config an option sets, with the value it sets it
\* to (WithZerologOptions appends to loggerEnrichers).
WithOutput(output) == [output |-> output]
WithLevel(level) == [level |-> level]
WithFormat(format) == [format |-> format]
WithZerologOptions(enrichers) == [loggerEnrichers |-> enrichers]

\* cfg := &config{...}; for _, opt := range options { opt(cfg) }
RECURSIVE ApplyOptions(_, _)
ApplyOptions(cfg, options) ==
    IF options = <<>> THEN cfg
    ELSE LET opt == Head(options)
         IN ApplyOptions(
               [k \in DOMAIN cfg |->
                   IF k \notin DOMAIN opt THEN cfg[k]
                   ELSE IF k = "loggerEnrichers" THEN cfg[k] \o opt[k]
                   ELSE opt[k]],
               Tail(options))

\* New(options...) as it is called: the config starts from the defaults.
NewWithOptions(options) ==
    LET cfg == ApplyOptions([output |-> Stdout, level |-> LevelInfo,
                             format |-> ConsoleFormat, loggerEnrichers |-> <<>>],
                            options)
    IN New(cfg.output, cfg.level, cfg.format, cfg.loggerEnrichers)

NoStatus == [code |-> "Unset", description |-> ""]

NoEvent == [message |-> "", level |-> ""]

\* What `last` records of an operation: its name and its arguments (arg: the
\* level given to SetLevel or the hertz level of a log method; w: the sink
\* given to SetOutput or the logger's sink when a log call starts; ctx, format
\* and v of a log call), the fields extracted from the context, the record
\* written (if any), the span event added (if any), and whether the operation
\* returned to its caller, the error it returned (Rotate), the level it
\* returned (the level mappers) and the options it was given (New).
LastOf(op) ==
    [op |-> op, method |-> "", kind |-> "", arg |-> LevelTrace, w |-> Stdout,
     ctx |-> NilCtx, format |-> <<>>, v |-> <<>>, fields |-> NoValues,
     emitted |-> FALSE, rec |-> NoRecord, event |-> NoEvent, returned |-> TRUE,
     err |-> NoError, res |-> LevelTrace, options |-> <<>>]

\* No RotatingLogger and no HlogAdapter has been built, and no call has been
\* made on one.
NoRotatingLogger == [writer |-> Nil, config |-> Nil]
NoAdapter == [logger |-> Nil]
NoCall == [via |-> "", method |-> "", args |-> <<>>]

\* The goroutine that runs SetLevel(level) and the one that runs SetOutput(w):
\* where each is (pc; "none" when the program starts no such goroutine), its
\* argument, the values it has read (logger; format, lvl) and the fields of
\* zl.logger it has still to copy (todo).
Goroutines(pc, level, w) ==
    [setLevel |-> [pc |-> pc, level |-> level, todo |-> {},
                   logger |-> NewEngine(Stdout, FALSE, "", TraceLevel)],
     setOutput |-> [pc |-> pc, w |-> w, todo |-> {},
                    format |-> ConsoleFormat, lvl |-> LevelTrace]]
NoGoroutines == Goroutines("none", LevelTrace, Stdout)

\* A call made on the ZLogger itself, not through a wrapper.
Direct == call' = NoCall /\ UNCHANGED <<rl, h, g>>

Init ==
    /\ \E output \in Sinks, level \in HertzLevels, format \in FormatTypes,
          enrichers \in EnricherLists :
          zl = New(output, level, format, enrichers)
    /\ written = [s \in Sinks |-> 0]
    /\ spans = [s \in SpanNames |-> [events |-> 0, status |-> NoStatus]]
    /\ exited = FALSE
    /\ last = LastOf("New")
    /\ lj = NoLumberjack
    /\ fs = MkFS(TRUE, TRUE, FALSE, 0)
    /\ rl = NoRotatingLogger
    /\ h = NoAdapter
    /\ call = NoCall
    /\ g = NoGoroutines

\* ------------------------------------------------------------------ control

\* SetLevel that stores the level and leaves the engine's filter as it was.
SetLevel_StoresOnly(level) ==
    /\ ~exited
    /\ zl' = [zl EXCEPT !.level = level]
    /\ last' = [LastOf("SetLevel") EXCEPT !.arg = level]
    /\ UNCHANGED <<written, spans, exited, lj, fs>>

\* ZLogger.SetLevel(level)
SetLevel(level) ==
    /\ ~exited
    /\ zl' = [zl EXCEPT !.level = level,
                        !.logger = WithLevelOf(zl.logger, toZerologLevel(level))]
    /\ last' = [LastOf("SetLevel") EXCEPT !.arg = level]
    /\ UNCHANGED <<written, spans, exited, lj, fs>>

\* SetOutput that rebuilds the engine in the default (console) format whatever
\* zl.format is.
SetOutput_DefaultFormat(w) ==
    /\ ~exited
    /\ zl' = [zl EXCEPT !.logger =
                NewEngine(w, TRUE, "RFC3339", toZerologLevel(zl.level))]
    /\ last' = [LastOf("SetOutput") EXCEPT !.w = w]
    /\ UNCHANGED <<written, spans, exited, lj, fs>>

\* SetOutput that leaves the engine on the sink it had.
SetOutput_KeepsSink(w) ==
    /\ ~exited
    /\ zl' = zl
    /\ last' = [LastOf("SetOutput") EXCEPT !.w = w]
    /\ UNCHANGED <<written, spans, exited, lj, fs>>

\* ZLogger.SetOutput(w)
SetOutput(w) ==
    /\ ~exited
    /\ zl' = [zl EXCEPT !.logger =
                CASE zl.format = JSONFormat ->
                       NewEngine(w, FALSE, "", toZerologLevel(zl.level))
                  [] zl.format = ConsoleFormat ->
                       NewEngine(w, TRUE, "DateTime", toZerologLevel(zl.level))
                  [] OTHER ->
                       NewEngine(w, TRUE, "RFC3339", toZerologLevel(zl.level))]
    /\ last' = [LastOf("SetOutput") EXCEPT !.w = w]
    /\ UNCHANGED <<written, spans, exited, lj, fs>>

\* The engine SetOutput(w) builds from the format and the level it has read.
SetOutputEngine(format, level, w) ==
    CASE format = JSONFormat -> NewEngine(w, FALSE, "", toZerologLevel(level))
      [] format = ConsoleFormat ->
           NewEngine(w, TRUE, "DateTime", toZerologLevel(level))
      [] OTHER -> NewEngine(w, TRUE, "RFC3339", toZerologLevel(level))

\* The fields of zl.logger (a zerolog.Logger struct): a copy of the struct made
\* while another goroutine copies into it is made field by field, in any order.
LoggerFields == {"w", "level", "context"}

\* A goroutine's step touches no sink, no span and no call record.
GoroutineStep ==
    /\ ~exited
    /\ UNCHANGED <<written, spans, exited, last, lj, fs, rl, h, call>>

\* SetLevel, statement 1: zl.level = level
SetLevel_StoreLevel ==
    /\ g.setLevel.pc = "start"
    /\ zl' = [zl EXCEPT !.level = g.setLevel.level]
    /\ g' = [g EXCEPT !.setLevel.pc = "read", !.setLevel.todo = LoggerFields]
    /\ GoroutineStep

\* SetLevel, statement 2, right-hand side: zl.logger is read
SetLevel_ReadLogger(field) ==
    /\ g.setLevel.pc = "read"
    /\ field \in g.setLevel.todo
    /\ g' = [g EXCEPT !.setLevel.logger[field] = zl.logger[field],
                      !.setLevel.todo = IF @ = {field} THEN LoggerFields
                                        ELSE @ \ {field},
                      !.setLevel.pc = IF g.setLevel.todo = {field} THEN "write"
                                      ELSE @]
    /\ UNCHANGED zl
    /\ GoroutineStep

\* SetLevel, statement 2, the assignment:
\* zl.logger = <the logger read>.Level(toZerologLevel(level))
SetLevel_StoreLogger(field) ==
    LET newLogger == WithLevelOf(g.setLevel.logger,
                                 toZerologLevel(g.setLevel.level))
    IN /\ g.setLevel.pc = "write"
       /\ field \in g.setLevel.todo
       /\ zl' = [zl EXCEPT !.logger[field] = newLogger[field]]
       /\ g' = [g EXCEPT !.setLevel.todo = @ \ {field},
                         !.setLevel.pc = IF g.setLevel.todo = {field} THEN "done"
                                         ELSE @]
       /\ GoroutineStep

\* SetOutput: switch zl.format
SetOutput_ReadFormat ==
    /\ g.setOutput.pc = "start"
    /\ g' = [g EXCEPT !.setOutput.format = zl.format,
                      !.setOutput.pc = "readLevel"]
    /\ UNCHANGED zl
    /\ GoroutineStep

\* SetOutput: toZerologLevel(zl.level), in the case taken
SetOutput_ReadLevel ==
    /\ g.setOutput.pc = "readLevel"
    /\ g' = [g EXCEPT !.setOutput.lvl = zl.level,
                      !.setOutput.pc = "write",
                      !.setOutput.todo = LoggerFields]
    /\ UNCHANGED zl
    /\ GoroutineStep

\* SetOutput: zl.logger = zerolog.New(...).Level(...)....Logger()
SetOutput_StoreLogger(field) ==
    LET newLogger == SetOutputEngine(g.setOutput.format, g.setOutput.lvl,
                                     g.setOutput.w)
    IN /\ g.setOutput.pc = "write"
       /\ field \in g.setOutput.todo
       /\ zl' = [zl EXCEPT !.logger[field] = newLogger[field]]
       /\ g' = [g EXCEPT !.setOutput.todo = @ \ {field},
                         !.setOutput.pc = IF g.setOutput.todo = {field}
                                          THEN "done" ELSE @]
       /\ GoroutineStep

\* Both calls have returned.
BothReturned == g.setLevel.pc = "done" /\ g.setOutput.pc = "done"

\* ------------------------------------------------------- context extraction

\* getOtelFields that adds trace_flags for every valid span, zero flags too.
getOtelFields_AlwaysFlags(ctx) ==
    IF ctx.nil THEN NoValues
    ELSE LET reqID == CtxValue(ctx, ReqIDKey)
             sc == SpanContextOf(SpanFromContext(ctx))
             keys == (IF reqID # Nil THEN {LogIDKey} ELSE {})
                     \cup (IF SpanContextIsValid(sc)
                           THEN {"trace_id", "span_id", "trace_flags"}
                           ELSE {})
         IN [k \in keys |->
                CASE k = LogIDKey -> reqID
                  [] k = "trace_id" -> IDString(sc.traceID)
                  [] k = "span_id" -> IDString(sc.spanID)
                  [] OTHER -> Fmt02x(sc.traceFlags)]

\* ZLogger.getOtelFields(ctx): a nil map (no entries) for a nil context.
getOtelFields(ctx) ==
    IF ctx.nil THEN NoValues
    ELSE LET reqID == CtxValue(ctx, ReqIDKey)
             sc == SpanContextOf(SpanFromContext(ctx))
             keys == (IF reqID # Nil THEN {LogIDKey} ELSE {})
                     \cup (IF SpanContextIsValid(sc)
                           THEN (IF IDIsValid(sc.traceID) THEN {"trace_id"} ELSE {})
                                \cup (IF IDIsValid(sc.spanID) THEN {"span_id"} ELSE {})
                                \cup (IF sc.traceFlags # 0 THEN {"trace_flags"} ELSE {})
                           ELSE {})
         IN [k \in keys |->
                CASE k = LogIDKey -> reqID
                  [] k = "trace_id" -> IDString(sc.traceID)
                  [] k = "span_id" -> IDString(sc.spanID)
                  [] OTHER -> Fmt02x(sc.traceFlags)]

\* getContextFields(ctx)
getContextFields(ctx) ==
    IF ctx.nil THEN NoValues
    ELSE LET reqID == CtxValue(ctx, "request_id")
             sc == SpanContextOf(SpanFromContext(ctx))
             keys == (IF reqID # Nil THEN {"request_id"} ELSE {})
                     \cup (IF SpanContextIsValid(sc)
                           THEN (IF IDIsValid(sc.traceID) THEN {"trace_id"} ELSE {})
                                \cup (IF IDIsValid(sc.spanID) THEN {"span_id"} ELSE {})
                                \cup (IF sc.traceFlags # 0 THEN {"trace_flags"} ELSE {})
                           ELSE {})
         IN [k \in keys |->
                CASE k = "request_id" -> reqID
                  [] k = "trace_id" -> IDString(sc.traceID)
                  [] k = "span_id" -> IDString(sc.spanID)
                  [] OTHER -> Fmt02x(sc.traceFlags)]

\* AddOtelFieldsToContext(ctx): a nil map when the span is not valid.
AddOtelFieldsToContext(ctx) ==
    LET sc == SpanContextOf(SpanFromContext(ctx))
        keys == (IF IDIsValid(sc.traceID) THEN {"trace_id"} ELSE {})
                \cup (IF IDIsValid(sc.spanID) THEN {"span_id"} ELSE {})
                \cup (IF sc.traceFlags # 0 THEN {"trace_flags"} ELSE {})
    IN IF ~SpanContextIsValid(sc) THEN NoValues
       ELSE [k \in keys |->
                CASE k = "trace_id" -> IDString(sc.traceID)
                  [] k = "span_id" -> IDString(sc.spanID)
                  [] OTHER -> Fmt02x(sc.traceFlags)]

\* The longest logger context AddOtelHooks may build in the model.
MaxContext == 6

\* ZLogger.AddOtelHooks(ctx)
AddOtelHooks(ctx) ==
    LET fields == AddOtelFieldsToContext(ctx)
        newLogger == WithFields(zl.logger, fields)
    IN /\ ~exited
       /\ Len(newLogger.context) <= MaxContext
       /\ zl' = IF DOMAIN fields = {} THEN zl ELSE [zl EXCEPT !.logger = newLogger]
       /\ last' = LastOf("AddOtelHooks")
       /\ UNCHANGED <<written, spans, exited, lj, fs>>

\* ---------------------------------------------------------------- log calls

RECURSIVE SumOver(_, _)
SumOver(f, S) ==
    IF S = {} THEN 0
    ELSE LET x == CHOOSE y \in S : TRUE IN f[x] + SumOver(f, S \ {x})

TotalWritten == SumOver(written, DOMAIN written)
TotalEvents == SumOver([s \in SpanNames |-> spans[s].events], SpanNames)

CanLog == ~exited /\ TotalWritten < MaxRecords
CanAnnotate == TotalEvents < MaxEvents

\* zerolog's Fatal(): after the event is handled (written or not), the event's
\* done callback calls os.Exit(1).
ExitsProcess(lvl) == lvl = FatalLevel

\* zl.logger.<Level>() ... .Msg(msg): the event of level lvl with the fields
\* is written to the logger's writer when the level is enabled.
\* The writer's Write gets the record (one unit long); when it returns an
\* error the record is lost: the engine reports the error on os.Stderr and
\* goes on.
EngineMsg(lvl) ==
    LET out == zl.logger.w.out
        wr == IF should(zl.logger, lvl) /\ out = Lumberjack
              THEN LoggerWrite(lj, fs, 1)
              ELSE LjResult(lj, fs, NoError)
    IN /\ written' = IF should(zl.logger, lvl) /\ wr.err = NoError
                     THEN [written EXCEPT ![out] = @ + 1]
                     ELSE written
       /\ lj' = wr.lj
       /\ fs' = wr.fs
       /\ exited' = ExitsProcess(lvl)

\* `last` after a log call.
Observe(method, kind, hl, lvl, ctx, format, v, fields, msg, event) ==
    last' = [LastOf("log") EXCEPT
               !.method = method, !.kind = kind, !.arg = hl,
               !.w = zl.logger.w.out, !.ctx = ctx, !.format = format, !.v = v,
               !.fields = fields,
               !.emitted = should(zl.logger, lvl),
               !.rec = IF should(zl.logger, lvl)
                       THEN Record(zl.logger, lvl, fields, msg) ELSE NoRecord,
               !.event = event,
               !.returned = ~ExitsProcess(lvl)]

\* The body shared by Trace .. Fatal: zl.logger.<Level>().Msg(fmt.Sprint(v...))
PlainCall(method, hl, lvl, v) ==
    /\ CanLog
    /\ EngineMsg(lvl)
    /\ Observe(method, "plain", hl, lvl, NilCtx, <<>>, v, NoValues, Sprint(v),
               NoEvent)
    /\ UNCHANGED <<zl, spans>>

\* The body shared by Tracef .. Fatalf: zl.logger.<Level>().Msgf(format, v...)
FormatCall(method, hl, lvl, format, v) ==
    /\ CanLog
    /\ EngineMsg(lvl)
    /\ Observe(method, "fmt", hl, lvl, NilCtx, format, v, NoValues,
               Sprintf(format, v), NoEvent)
    /\ UNCHANGED <<zl, spans>>

\* span.AddEvent("log", message, level), then span.SetStatus(codes.Error, msg)
\* when setStatus.
Annotate(span, msg, levelAttr, setStatus) ==
    [spans EXCEPT ![span.name] =
        [events |-> @.events + 1,
         status |-> IF setStatus
                    THEN [code |-> "Error", description |-> msg]
                    ELSE @.status]]

\* The body shared by CtxTracef .. CtxFatalf: the fields of getOtelFields are
\* added to the event, the event is logged, and, if the call has not ended the
\* process, the span of the context is annotated when it is valid.
CtxCall(method, hl, lvl, ctx, format, v, levelAttr, setStatus) ==
    LET fields == getOtelFields(ctx)
        msg == Sprintf(format, v)
        span == SpanFromContext(ctx)
        annotate == ~ExitsProcess(lvl) /\ SpanContextIsValid(SpanContextOf(span))
    IN /\ CanLog
       /\ CanAnnotate
       /\ EngineMsg(lvl)
       /\ spans' = IF annotate THEN Annotate(span, msg, levelAttr, setStatus)
                   ELSE spans
       /\ Observe(method, "ctx", hl, lvl, ctx, format, v, fields, msg,
                  IF annotate THEN [message |-> msg, level |-> levelAttr]
                  ELSE NoEvent)
       /\ UNCHANGED zl

\* Trace(v...) .. Fatal(v...)
Trace(v) == PlainCall("Trace", LevelTrace, TraceLevel, v)
Debug(v) == PlainCall("Debug", LevelDebug, DebugLevel, v)
Info(v) == PlainCall("Info", LevelInfo, InfoLevel, v)
Notice(v) == PlainCall("Notice", LevelNotice, WarnLevel, v)
Warn(v) == PlainCall("Warn", LevelWarn, WarnLevel, v)
Error(v) == PlainCall("Error", LevelError, ErrorLevel, v)
Fatal(v) == PlainCall("Fatal", LevelFatal, FatalLevel, v)

\* Tracef(format, v...) .. Fatalf(format, v...)
Tracef(format, v) == FormatCall("Tracef", LevelTrace, TraceLevel, format, v)
Debugf(format, v) == FormatCall("Debugf", LevelDebug, DebugLevel, format, v)
Infof(format, v) == FormatCall("Infof", LevelInfo, InfoLevel, format, v)
Noticef(format, v) == FormatCall("Noticef", LevelNotice, WarnLevel, format, v)
Warnf(format, v) == FormatCall("Warnf", LevelWarn, WarnLevel, format, v)
Errorf(format, v) == FormatCall("Errorf", LevelError, ErrorLevel, format, v)
Fatalf(format, v) == FormatCall("Fatalf", LevelFatal, FatalLevel, format, v)

\* CtxTracef(ctx, format, v...) .. CtxFatalf(ctx, format, v...)
CtxTracef(ctx, format, v) ==
    CtxCall("CtxTracef", LevelTrace, TraceLevel, ctx, format, v, "trace", FALSE)
CtxDebugf(ctx, format, v) ==
    CtxCall("CtxDebugf", LevelDebug, DebugLevel, ctx, format, v, "debug", FALSE)
CtxInfof(ctx, format, v) ==
    CtxCall("CtxInfof", LevelInfo, InfoLevel, ctx, format, v, "info", FALSE)
CtxNoticef(ctx, format, v) ==
    CtxCall("CtxNoticef", LevelNotice, WarnLevel, ctx, format, v, "notice", FALSE)

\* CtxWarnf whose event names the level "warning".
CtxWarnf_Warning(ctx, format, v) ==
    CtxCall("CtxWarnf", LevelWarn, WarnLevel, ctx, format, v, "warning", FALSE)

CtxWarnf(ctx, format, v) ==
    CtxCall("CtxWarnf", LevelWarn, WarnLevel, ctx, format, v, "warn", FALSE)

\* CtxErrorf that adds the event and does not mark the span as failed.
CtxErrorf_NoStatus(ctx, format, v) ==
    CtxCall("CtxErrorf", LevelError, ErrorLevel, ctx, format, v, "error", FALSE)

CtxErrorf(ctx, format, v) ==
    CtxCall("CtxErrorf", LevelError, ErrorLevel, ctx, format, v, "error", TRUE)
CtxFatalf(ctx, format, v) ==
    CtxCall("CtxFatalf", LevelFatal, FatalLevel, ctx, format, v, "fatal", TRUE)

\* The body shared by CtxInfofWithTrace and CtxErrorfWithTrace: the body of
\* the Ctx methods with the fields of AddOtelFieldsToContext.
WithTraceCall(method, hl, lvl, ctx, format, v, levelAttr, setStatus) ==
    LET fields == AddOtelFieldsToContext(ctx)
        msg == Sprintf(format, v)
        span == SpanFromContext(ctx)
        annotate == ~ExitsProcess(lvl) /\ SpanContextIsValid(SpanContextOf(span))
    IN /\ CanLog
       /\ CanAnnotate
       /\ EngineMsg(lvl)
       /\ spans' = IF annotate THEN Annotate(span, msg, levelAttr, setStatus)
                   ELSE spans
       /\ Observe(method, "ctx", hl, lvl, ctx, format, v, fields, msg,
                  IF annotate THEN [message |-> msg, level |-> levelAttr]
                  ELSE NoEvent)
       /\ UNCHANGED zl

\* CtxInfofWithTrace(ctx, format, v...), CtxErrorfWithTrace(ctx, format, v...)
CtxInfofWithTrace(ctx, format, v) ==
    WithTraceCall("CtxInfofWithTrace", LevelInfo, InfoLevel, ctx, format, v,
                  "info", FALSE)
CtxErrorfWithTrace(ctx, format, v) ==
    WithTraceCall("CtxErrorfWithTrace", LevelError, ErrorLevel, ctx, format, v,
                  "error", TRUE)

\* ------------------------------------------------------------ specification

\* Any call of the ZLogger's methods, made on the ZLogger itself.
Next ==
    \/ \E level \in HertzLevels : SetLevel(level) /\ Direct
    \/ \E w \in Sinks : SetOutput(w) /\ Direct
    \/ \E ctx \in Contexts : AddOtelHooks(ctx) /\ Direct
    \/ \E v \in PlainArgs : Trace(v) /\ Direct
    \/ \E v \in PlainArgs : Debug(v) /\ Direct
    \/ \E v \in PlainArgs : Info(v) /\ Direct
    \/ \E v \in PlainArgs : Notice(v) /\ Direct
    \/ \E v \in PlainArgs : Warn(v) /\ Direct
    \/ \E v \in PlainArgs : Error(v) /\ Direct
    \/ \E v \in PlainArgs : Fatal(v) /\ Direct
    \/ \E format \in Formats, v \in FormatArgs : Tracef(format, v) /\ Direct
    \/ \E format \in Formats, v \in FormatArgs : Debugf(format, v) /\ Direct
    \/ \E format \in Formats, v \in FormatArgs : Infof(format, v) /\ Direct
    \/ \E format \in Formats, v \in FormatArgs : Noticef(format, v) /\ Direct
    \/ \E format \in Formats, v \in FormatArgs : Warnf(format, v) /\ Direct
    \/ \E format \in Formats, v \in FormatArgs : Errorf(format, v) /\ Direct
    \/ \E format \in Formats, v \in FormatArgs : Fatalf(format, v) /\ Direct
    \/ \E ctx \in Contexts, format \in Formats, v \in FormatArgs :
          CtxTracef(ctx, format, v) /\ Direct
    \/ \E ctx \in Contexts, format \in Formats, v \in FormatArgs :
          CtxDebugf(ctx, format, v) /\ Direct
    \/ \E ctx \in Contexts, format \in Formats, v \in FormatArgs :
          CtxInfof(ctx, format, v) /\ Direct
    \/ \E ctx \in Contexts, format \in Formats, v \in FormatArgs :
          CtxNoticef(ctx, format, v) /\ Direct
    \/ \E ctx \in Contexts, format \in Formats, v \in FormatArgs :
          CtxWarnf(ctx, format, v) /\ Direct
    \/ \E ctx \in Contexts, format \in Formats, v \in FormatArgs :
          CtxErrorf(ctx, format, v) /\ Direct
    \/ \E ctx \in Contexts, format \in Formats, v \in FormatArgs :
          CtxFatalf(ctx, format, v) /\ Direct

Spec == Init /\ [][Next]_vars

\* ------------------------------------ SetLevel and SetOutput run concurrently

\* go zl.SetLevel(level); go zl.SetOutput(w) on a logger built by New with
\* another level and another sink.
InitRace ==
    /\ \E level \in {LevelDebug, LevelWarn}, format \in FormatTypes :
          zl = New(Stdout, level, format, <<>>)
    /\ g = Goroutines("start", LevelError, "buf")
    /\ written = [s \in Sinks |-> 0]
    /\ spans = [s \in SpanNames |-> [events |-> 0, status |-> NoStatus]]
    /\ exited = FALSE
    /\ last = LastOf("New")
    /\ lj = NoLumberjack
    /\ fs = MkFS(TRUE, TRUE, FALSE, 0)
    /\ rl = NoRotatingLogger
    /\ h = NoAdapter
    /\ call = NoCall

\* The statements of the two goroutines in any interleaving, then log calls.
NextRace ==
    \/ SetLevel_StoreLevel
    \/ \E field \in LoggerFields : SetLevel_ReadLogger(field)
    \/ \E field \in LoggerFields : SetLevel_StoreLogger(field)
    \/ SetOutput_ReadFormat
    \/ SetOutput_ReadLevel
    \/ \E field \in LoggerFields : SetOutput_StoreLogger(field)
    \/ \E v \in PlainArgs : BothReturned /\ Info(v) /\ Direct
    \/ \E v \in PlainArgs : BothReturned /\ Warn(v) /\ Direct
    \/ \E format \in Formats, v \in FormatArgs :
          BothReturned /\ Errorf(format, v) /\ Direct

SpecRace == InitRace /\ [][NextRace]_vars

\* ------------------------------------------- the two trace-logging paths

\* A logger built by New, then CtxInfof, CtxErrorf and their WithTrace twins
\* called with any context, between changes of the minimum level.
InitTrace ==
    /\ \E format \in FormatTypes, enrichers \in EnricherLists :
          zl = New("buf", LevelInfo, format, enrichers)
    /\ written = [s \in Sinks |-> 0]
    /\ spans = [s \in SpanNames |-> [events |-> 0, status |-> NoStatus]]
    /\ exited = FALSE
    /\ last = LastOf("New")
    /\ lj = NoLumberjack
    /\ fs = MkFS(TRUE, TRUE, FALSE, 0)
    /\ rl = NoRotatingLogger
    /\ h = NoAdapter
    /\ call = NoCall
    /\ g = NoGoroutines

NextTrace ==
    \/ \E level \in {LevelInfo, LevelError} : SetLevel(level) /\ Direct
    \/ \E ctx \in Contexts, format \in Formats, v \in FormatArgs :
          CtxInfof(ctx, format, v) /\ Direct
    \/ \E ctx \in Contexts, format \in Formats, v \in FormatArgs :
          CtxInfofWithTrace(ctx, format, v) /\ Direct
    \/ \E ctx \in Contexts, format \in Formats, v \in FormatArgs :
          CtxErrorf(ctx, format, v) /\ Direct
    \/ \E ctx \in Contexts, format \in Formats, v \in FormatArgs :
          CtxErrorfWithTrace(ctx, format, v) /\ Direct

SpecTrace == InitTrace /\ [][NextTrace]_vars

\* ------------------------------------ the extractors, as functions of a context

\* The contexts the extractors are applied to: nil, or any combination of the
\* request id stored under ReqIDKey, under "request_id", or not at all, with no
\* span or a span of any trace id, span id and trace flags below.
ExtractIDs == {0, 171}
ExtractFlags == {0, 1, 10, 255}
ExtractValues ==
    {NoValues, [k \in {ReqIDKey} |-> "r-1"], [k \in {"request_id"} |-> "12345"],
     [k \in {ReqIDKey, "request_id"} |-> "r-2"]}
ExtractSpans ==
    {NoSpan} \cup {MkSpan("sX", t, s, f) : t \in ExtractIDs, s \in ExtractIDs,
                                        f \in ExtractFlags}
ExtractContexts ==
    {NilCtx} \cup {MkCtx(FALSE, vs, sp) : vs \in ExtractValues, sp \in ExtractSpans}

InitExtract ==
    /\ zl = New(Stdout, LevelInfo, ConsoleFormat, <<>>)
    /\ written = [s \in Sinks |-> 0]
    /\ spans = [s \in SpanNames |-> [events |-> 0, status |-> NoStatus]]
    /\ exited = FALSE
    /\ \E ctx \in ExtractContexts : last = [LastOf("context") EXCEPT !.ctx = ctx]
    /\ lj = NoLumberjack
    /\ fs = MkFS(TRUE, TRUE, FALSE, 0)
    /\ rl = NoRotatingLogger
    /\ h = NoAdapter
    /\ call = NoCall
    /\ g = NoGoroutines

\* fields := zl.getOtelFields(ctx)
CallGetOtelFields ==
    /\ last.op = "context"
    /\ last' = [last EXCEPT !.op = "getOtelFields",
                            !.fields = getOtelFields(last.ctx)]
    /\ UNCHANGED <<zl, written, spans, exited, lj, fs>>

\* fields := getContextFields(ctx)
CallGetContextFields ==
    /\ last.op = "context"
    /\ last' = [last EXCEPT !.op = "getContextFields",
                            !.fields = getContextFields(last.ctx)]
    /\ UNCHANGED <<zl, written, spans, exited, lj, fs>>

\* fields := AddOtelFieldsToContext(ctx)
CallAddOtelFieldsToContext ==
    /\ last.op = "context"
    /\ last' = [last EXCEPT !.op = "AddOtelFieldsToContext",
                            !.fields = AddOtelFieldsToContext(last.ctx)]
    /\ UNCHANGED <<zl, written, spans, exited, lj, fs>>

NextExtract ==
    \/ CallGetOtelFields /\ Direct
    \/ CallGetContextFields /\ Direct
    \/ CallAddOtelFieldsToContext /\ Direct

SpecExtract == InitExtract /\ [][NextExtract]_vars

\* ------------------------------------- the level mappers, as functions of a level

\* The levels the mappers are applied to: hertzlog.Level and zerolog.Level are
\* integer types, so the seven (six) named levels and values outside them.
LevelInputs == -12..18

\* A logger of any minimum level, and a level to map.
InitLevels ==
    /\ \E level \in HertzLevels : zl = New(Stdout, level, JSONFormat, <<>>)
    /\ written = [s \in Sinks |-> 0]
    /\ spans = [s \in SpanNames |-> [events |-> 0, status |-> NoStatus]]
    /\ exited = FALSE
    /\ \E x \in LevelInputs : last = [LastOf("level") EXCEPT !.arg = x]
    /\ lj = NoLumberjack
    /\ fs = MkFS(TRUE, TRUE, FALSE, 0)
    /\ rl = NoRotatingLogger
    /\ h = NoAdapter
    /\ call = NoCall
    /\ g = NoGoroutines

\* l := toZerologLevel(level)
CallToZerologLevel ==
    /\ last.op = "level"
    /\ last' = [last EXCEPT !.op = "toZerologLevel",
                            !.res = toZerologLevel(last.arg)]
    /\ UNCHANGED <<zl, written, spans, exited, lj, fs>>

\* l := fromZerologLevel(level)
CallFromZerologLevel ==
    /\ last.op = "level"
    /\ last' = [last EXCEPT !.op = "fromZerologLevel",
                            !.res = fromZerologLevel(last.arg)]
    /\ UNCHANGED <<zl, written, spans, exited, lj, fs>>

\* l := fromZerologLevel(toZerologLevel(level)): a level mapped to the engine's
\* scheme and back.
CallRoundTrip ==
    /\ last.op = "level"
    /\ last' = [last EXCEPT !.op = "roundTrip",
                            !.res = fromZerologLevel(toZerologLevel(last.arg))]
    /\ UNCHANGED <<zl, written, spans, exited, lj, fs>>

\* The mappers applied to a level, and the 21 log methods.
NextLevels ==
    \/ CallToZerologLevel /\ Direct
    \/ CallFromZerologLevel /\ Direct
    \/ CallRoundTrip /\ Direct
    \/ \E v \in PlainArgs : Trace(v) /\ Direct
    \/ \E v \in PlainArgs : Debug(v) /\ Direct
    \/ \E v \in PlainArgs : Info(v) /\ Direct
    \/ \E v \in PlainArgs : Notice(v) /\ Direct
    \/ \E v \in PlainArgs : Warn(v) /\ Direct
    \/ \E v \in PlainArgs : Error(v) /\ Direct
    \/ \E v \in PlainArgs : Fatal(v) /\ Direct
    \/ \E format \in Formats, v \in FormatArgs : Tracef(format, v) /\ Direct
    \/ \E format \in Formats, v \in FormatArgs : Debugf(format, v) /\ Direct
    \/ \E format \in Formats, v \in FormatArgs : Infof(format, v) /\ Direct
    \/ \E format \in Formats, v \in FormatArgs : Noticef(format, v) /\ Direct
    \/ \E format \in Formats, v \in FormatArgs : Warnf(format, v) /\ Direct
    \/ \E format \in Formats, v \in FormatArgs : Errorf(format, v) /\ Direct
    \/ \E format \in Formats, v \in FormatArgs : Fatalf(format, v) /\ Direct
    \/ \E format \in Formats, v \in FormatArgs :
          CtxTracef(TracedCtx, format, v) /\ Direct
    \/ \E format \in Formats, v \in FormatArgs :
          CtxDebugf(TracedCtx, format, v) /\ Direct
    \/ \E format \in Formats, v \in FormatArgs :
          CtxInfof(TracedCtx, format, v) /\ Direct
    \/ \E format \in Formats, v \in FormatArgs :
          CtxNoticef(TracedCtx, format, v) /\ Direct
    \/ \E format \in Formats, v \in FormatArgs :
          CtxWarnf(TracedCtx, format, v) /\ Direct
    \/ \E format \in Formats, v \in FormatArgs :
          CtxErrorf(TracedCtx, format, v) /\ Direct
    \/ \E format \in Formats, v \in FormatArgs :
          CtxFatalf(TracedCtx, format, v) /\ Direct

SpecLevels == InitLevels /\ [][NextLevels]_vars

\* --------------------------------------------- the output of the two formats

\* The options New is called with: a level, no format or one of the two, and
\* enrichers or none.
FormatOptions ==
    {<<WithOutput("buf"), WithLevel(level)>> \o f \o e :
        level \in {LevelTrace, LevelWarn},
        f \in {<<>>, <<WithFormat(ConsoleFormat)>>, <<WithFormat(JSONFormat)>>},
        e \in {<<>>, <<WithZerologOptions(<<<<"service", "a b">>>>)>>}}

\* The arguments of the calls: none (an empty message), and messages with a
\* quote, a backslash, a brace, and a line break before a brace.
TextArgs == {<<>>, <<"m", "1">>, <<"say \"hi\" \\ {x}">>, <<"next\n{line}">>}
TextFormats == {<<"m=", "%v">>, <<"{", "%v", "}\n{">>}

InitFormat ==
    /\ \E options \in FormatOptions :
          /\ zl = NewWithOptions(options)
          /\ last = [LastOf("New") EXCEPT !.options = options]
    /\ written = [s \in Sinks |-> 0]
    /\ spans = [s \in SpanNames |-> [events |-> 0, status |-> NoStatus]]
    /\ exited = FALSE
    /\ lj = NoLumberjack
    /\ fs = MkFS(TRUE, TRUE, FALSE, 0)
    /\ rl = NoRotatingLogger
    /\ h = NoAdapter
    /\ call = NoCall
    /\ g = NoGoroutines

NextFormat ==
    \/ \E w \in Sinks : SetOutput(w) /\ Direct
    \/ AddOtelHooks(TracedCtx) /\ Direct
    \/ \E v \in TextArgs : Trace(v) /\ Direct
    \/ \E v \in TextArgs : Debug(v) /\ Direct
    \/ \E v \in TextArgs : Info(v) /\ Direct
    \/ \E v \in TextArgs : Notice(v) /\ Direct
    \/ \E v \in TextArgs : Warn(v) /\ Direct
    \/ \E v \in TextArgs : Error(v) /\ Direct
    \/ \E v \in TextArgs : Fatal(v) /\ Direct
    \/ \E format \in TextFormats, v \in FormatArgs : Tracef(format, v) /\ Direct
    \/ \E format \in TextFormats, v \in FormatArgs : Debugf(format, v) /\ Direct
    \/ \E format \in TextFormats, v \in FormatArgs : Infof(format, v) /\ Direct
    \/ \E format \in TextFormats, v \in FormatArgs : Noticef(format, v) /\ Direct
    \/ \E format \in TextFormats, v \in FormatArgs : Warnf(format, v) /\ Direct
    \/ \E format \in TextFormats, v \in FormatArgs : Errorf(format, v) /\ Direct
    \/ \E format \in TextFormats, v \in FormatArgs : Fatalf(format, v) /\ Direct
    \/ \E ctx \in {Background, TracedCtx}, format \in TextFormats, v \in FormatArgs :
          CtxTracef(ctx, format, v) /\ Direct
    \/ \E ctx \in {Background, TracedCtx}, format \in TextFormats, v \in FormatArgs :
          CtxDebugf(ctx, format, v) /\ Direct
    \/ \E ctx \in {Background, TracedCtx}, format \in TextFormats, v \in FormatArgs :
          CtxInfof(ctx, format, v) /\ Direct
    \/ \E ctx \in {Background, TracedCtx}, format \in TextFormats, v \in FormatArgs :
          CtxNoticef(ctx, format, v) /\ Direct
    \/ \E ctx \in {Background, TracedCtx}, format \in TextFormats, v \in FormatArgs :
          CtxWarnf(ctx, format, v) /\ Direct
    \/ \E ctx \in {Background, TracedCtx}, format \in TextFormats, v \in FormatArgs :
          CtxErrorf(ctx, format, v) /\ Direct
    \/ \E ctx \in {Background, TracedCtx}, format \in TextFormats, v \in FormatArgs :
          CtxFatalf(ctx, format, v) /\ Direct

SpecFormat == InitFormat /\ [][NextFormat]_vars

\* ------------------------------------------------------ the RotatingLogger

\* WithRotation(config), WithRotationAndFormat(rotationConfig, format): the
\* output is a lumberjack.Logger built from the config.
WithRotation(config) == WithOutput(Lumberjack)
WithRotationAndFormat(rotationConfig, format) ==
    [output |-> Lumberjack, format |-> format]

\* NewRotatingLoggerWithFormat(config, format): the lumberjack.Logger, the
\* ZLogger that writes to it, and the RotatingLogger that holds both.
NewRotatingLoggerWithFormat(config, format) ==
    [lumberjackLogger |-> NewLumberjack(config),
     baseLogger |-> NewWithOptions(<<WithOutput(Lumberjack), WithFormat(format)>>),
     rl |-> [writer |-> Lumberjack, config |-> config]]

\* NewRotatingLogger(config)
NewRotatingLogger(config) ==
    [lumberjackLogger |-> NewLumberjack(config),
     baseLogger |-> NewWithOptions(<<WithOutput(Lumberjack),
                                      WithFormat(ConsoleFormat)>>),
     rl |-> [writer |-> Lumberjack, config |-> config]]

\* The most rotations after which the model lets Rotate be called.
MaxRotations == 3

\* Rotate that reports success whatever lj.Rotate() returned.
Rotate_ErrorDropped ==
    LET r == IF rl.writer = Lumberjack THEN LoggerRotate(lj, fs)
             ELSE LjResult(lj, fs, "unable to rotate: writer is not a lumberjack.Logger")
    IN /\ ~exited
       /\ rl.writer # Nil
       /\ fs.rotations < MaxRotations
       /\ lj' = r.lj
       /\ fs' = r.fs
       /\ last' = LastOf("Rotate")
       /\ UNCHANGED <<zl, written, spans, exited, rl, h, call, g>>

\* RotatingLogger.Rotate()
Rotate ==
    LET r == IF rl.writer = Lumberjack THEN LoggerRotate(lj, fs)
             ELSE LjResult(lj, fs, "unable to rotate: writer is not a lumberjack.Logger")
    IN /\ ~exited
       /\ rl.writer # Nil
       /\ fs.rotations < MaxRotations
       /\ lj' = r.lj
       /\ fs' = r.fs
       /\ last' = [LastOf("Rotate") EXCEPT !.err = r.err]
       /\ UNCHANGED <<zl, written, spans, exited, rl, h, call, g>>

\* RotatingLogger.GetRotatingWriter()
GetRotatingWriter ==
    /\ ~exited
    /\ rl.writer # Nil
    /\ last' = [LastOf("GetRotatingWriter") EXCEPT
                  !.w = IF rl.writer = Lumberjack THEN Lumberjack ELSE Nil]
    /\ UNCHANGED <<zl, written, spans, exited, lj, fs, rl, h, call, g>>

\* RotatingLogger.SetLevel(level)
RotatingLogger_SetLevel(level) ==
    /\ rl.writer # Nil
    /\ SetLevel(level)
    /\ UNCHANGED <<rl, h, call, g>>

\* RotatingLogger.SetOutput(w): a new ZLogger, New(WithOutput(w),
\* WithLevel(rl.baseLogger.level)), becomes the base logger.
RotatingLogger_SetOutput(w) ==
    /\ ~exited
    /\ rl.writer # Nil
    /\ zl' = NewWithOptions(<<WithOutput(w), WithLevel(zl.level)>>)
    /\ last' = [LastOf("RotatingLogger.SetOutput") EXCEPT !.w = w]
    /\ UNCHANGED <<written, spans, exited, lj, fs, rl, h, call, g>>

\* Logger.millRun(): the mill goroutine takes the pending request and makes
\* one retention pass over the backups.
millRun ==
    /\ ~exited
    /\ lj.millPending
    /\ lj' = [lj EXCEPT !.millPending = FALSE]
    /\ fs' = [fs EXCEPT !.backups = millRunOnce(lj, @)]
    /\ last' = LastOf("millRun")
    /\ UNCHANGED <<zl, written, spans, exited, rl, h, call, g>>

\* The oldest a backup gets in the model.
MaxClock == 2

\* The clock moves to its next reading: every backup is one reading older.
Tick ==
    /\ ~exited
    /\ fs.backups # <<>>
    /\ \A i \in DOMAIN fs.backups : fs.backups[i] < MaxClock
    /\ fs' = [fs EXCEPT !.backups = [i \in DOMAIN @ |-> @[i] + 1]]
    /\ last' = LastOf("Tick")
    /\ UNCHANGED <<zl, written, spans, exited, lj, rl, h, call, g>>

\* opt(config) with a sink that reads its policy from the RotateConfig instead
\* of holding a copy of it.
RotateConfigOption_PolicyShared(opt) ==
    /\ ~exited
    /\ rl.writer # Nil
    /\ rl' = [rl EXCEPT !.config = ApplyRotateOptions(@, <<opt>>)]
    /\ lj' = [lj EXCEPT ![opt.field] = opt.value]
    /\ last' = LastOf("RotateConfigOption")
    /\ UNCHANGED <<zl, written, spans, exited, fs, h, call, g>>

\* opt(config), applied by the caller to the RotateConfig it has built the
\* RotatingLogger from: rl.config points to that RotateConfig.
RotateConfigOption(opt) ==
    /\ ~exited
    /\ rl.writer # Nil
    /\ rl' = [rl EXCEPT !.config = ApplyRotateOptions(@, <<opt>>)]
    /\ last' = LastOf("RotateConfigOption")
    /\ UNCHANGED <<zl, written, spans, exited, lj, fs, h, call, g>>

\* rl.baseLogger.<Method>(...): each of the 21 log methods of a RotatingLogger
\* is that one call of the same method of the ZLogger it holds.
baseLogger(Method) == rl.writer # Nil /\ Method /\ UNCHANGED <<rl, h, call, g>>

\* The rotation configs: the defaults, and a small file with one backup.
RotateConfigs ==
    {GetDefaultRotateConfig("logs/app.log", <<>>),
     GetDefaultRotateConfig("logs/app.log", <<WithMaxSize(1), WithMaxBackups(1)>>)}

\* The file system the program starts on: the path usable or not; no parent
\* directory, the directory without the log file, or the log file of an
\* earlier run.
FileSystems ==
    {MkFS(usable, d[1], d[2], d[3]) :
        usable \in BOOLEAN,
        d \in {<<FALSE, FALSE, 0>>, <<TRUE, FALSE, 0>>, <<TRUE, TRUE, 1>>}}

\* A RotatingLogger built by one of its two constructors, or a ZLogger built
\* by New with WithRotation or WithRotationAndFormat; building them leaves the
\* file system as it is.
InitRotate ==
    /\ fs \in FileSystems
    /\ \E config \in RotateConfigs :
          /\ lj = NewLumberjack(config)
          /\ \/ /\ zl = NewRotatingLogger(config).baseLogger
                /\ rl = NewRotatingLogger(config).rl
                /\ last = LastOf("NewRotatingLogger")
             \/ \E format \in FormatTypes :
                   /\ zl = NewRotatingLoggerWithFormat(config, format).baseLogger
                   /\ rl = NewRotatingLoggerWithFormat(config, format).rl
                   /\ last = LastOf("NewRotatingLoggerWithFormat")
             \/ /\ zl = NewWithOptions(<<WithRotation(config)>>)
                /\ rl = NoRotatingLogger
                /\ last = LastOf("New")
             \/ \E format \in FormatTypes :
                   /\ zl = NewWithOptions(<<WithRotationAndFormat(config, format)>>)
                   /\ rl = NoRotatingLogger
                   /\ last = LastOf("New")
    /\ written = [s \in Sinks \cup {Lumberjack} |-> 0]
    /\ spans = [s \in SpanNames |-> [events |-> 0, status |-> NoStatus]]
    /\ exited = FALSE
    /\ h = NoAdapter
    /\ call = NoCall
    /\ g = NoGoroutines

\* The levels, sinks and contexts of the calls, and the changes made to the
\* RotateConfig after the logger was built.
ConfigChanges == {WithMaxAge(1)}
RotateLevels == {LevelError}
RotateSinks == {"buf", Lumberjack}

\* The caller of New holds the ZLogger; the caller of NewRotatingLogger holds
\* the RotatingLogger only.
HoldsZLogger == rl.writer = Nil /\ Direct

NextRotate ==
    \/ Rotate
    \/ GetRotatingWriter
    \/ millRun
    \/ \E level \in RotateLevels : RotatingLogger_SetLevel(level)
    \/ \E w \in RotateSinks : RotatingLogger_SetOutput(w)
    \/ \E v \in PlainArgs : baseLogger(Trace(v))
    \/ \E v \in PlainArgs : baseLogger(Debug(v))
    \/ \E v \in PlainArgs : baseLogger(Info(v))
    \/ \E v \in PlainArgs : baseLogger(Notice(v))
    \/ \E v \in PlainArgs : baseLogger(Warn(v))
    \/ \E v \in PlainArgs : baseLogger(Error(v))
    \/ \E v \in PlainArgs : baseLogger(Fatal(v))
    \/ \E format \in Formats, v \in FormatArgs : baseLogger(Tracef(format, v))
    \/ \E format \in Formats, v \in FormatArgs : baseLogger(Debugf(format, v))
    \/ \E format \in Formats, v \in FormatArgs : baseLogger(Infof(format, v))
    \/ \E format \in Formats, v \in FormatArgs : baseLogger(Noticef(format, v))
    \/ \E format \in Formats, v \in FormatArgs : baseLogger(Warnf(format, v))
    \/ \E format \in Formats, v \in FormatArgs : baseLogger(Errorf(format, v))
    \/ \E format \in Formats, v \in FormatArgs : baseLogger(Fatalf(format, v))
    \/ \E format \in Formats, v \in FormatArgs :
          baseLogger(CtxTracef(TracedCtx, format, v))
    \/ \E format \in Formats, v \in FormatArgs :
          baseLogger(CtxDebugf(TracedCtx, format, v))
    \/ \E format \in Formats, v \in FormatArgs :
          baseLogger(CtxInfof(TracedCtx, format, v))
    \/ \E format \in Formats, v \in FormatArgs :
          baseLogger(CtxNoticef(TracedCtx, format, v))
    \/ \E format \in Formats, v \in FormatArgs :
          baseLogger(CtxWarnf(TracedCtx, format, v))
    \/ \E format \in Formats, v \in FormatArgs :
          baseLogger(CtxErrorf(TracedCtx, format, v))
    \/ \E format \in Formats, v \in FormatArgs :
          baseLogger(CtxFatalf(TracedCtx, format, v))
    \/ \E level \in RotateLevels : SetLevel(level) /\ HoldsZLogger
    \/ \E w \in RotateSinks : SetOutput(w) /\ HoldsZLogger
    \/ \E v \in PlainArgs : Trace(v) /\ HoldsZLogger
    \/ \E v \in PlainArgs : Debug(v) /\ HoldsZLogger
    \/ \E v \in PlainArgs : Info(v) /\ HoldsZLogger
    \/ \E v \in PlainArgs : Notice(v) /\ HoldsZLogger
    \/ \E v \in PlainArgs : Warn(v) /\ HoldsZLogger
    \/ \E v \in PlainArgs : Error(v) /\ HoldsZLogger
    \/ \E v \in PlainArgs : Fatal(v) /\ HoldsZLogger
    \/ \E format \in Formats, v \in FormatArgs : Tracef(format, v) /\ HoldsZLogger
    \/ \E format \in Formats, v \in FormatArgs : Debugf(format, v) /\ HoldsZLogger
    \/ \E format \in Formats, v \in FormatArgs : Infof(format, v) /\ HoldsZLogger
    \/ \E format \in Formats, v \in FormatArgs : Noticef(format, v) /\ HoldsZLogger
    \/ \E format \in Formats, v \in FormatArgs : Warnf(format, v) /\ HoldsZLogger
    \/ \E format \in Formats, v \in FormatArgs : Errorf(format, v) /\ HoldsZLogger
    \/ \E format \in Formats, v \in FormatArgs : Fatalf(format, v) /\ HoldsZLogger
    \/ \E format \in Formats, v \in FormatArgs :
          CtxTracef(TracedCtx, format, v) /\ HoldsZLogger
    \/ \E format \in Formats, v \in FormatArgs :
          CtxDebugf(TracedCtx, format, v) /\ HoldsZLogger
    \/ \E format \in Formats, v \in FormatArgs :
          CtxInfof(TracedCtx, format, v) /\ HoldsZLogger
    \/ \E format \in Formats, v \in FormatArgs :
          CtxNoticef(TracedCtx, format, v) /\ HoldsZLogger
    \/ \E format \in Formats, v \in FormatArgs :
          CtxWarnf(TracedCtx, format, v) /\ HoldsZLogger
    \/ \E format \in Formats, v \in FormatArgs :
          CtxErrorf(TracedCtx, format, v) /\ HoldsZLogger
    \/ \E format \in Formats, v \in FormatArgs :
          CtxFatalf(TracedCtx, format, v) /\ HoldsZLogger

SpecRotate == InitRotate /\ [][NextRotate]_vars

\* ------------------------------------------- rotation policy and retention

\* The rotation configs: a file of one unit with two backups kept ten
\* readings of the clock, with one backup kept one reading, and the default
\* size with every backup kept.
RetentionConfigs ==
    {GetDefaultRotateConfig("logs/app.log", <<WithMaxSize(1), WithMaxBackups(2)>>),
     GetDefaultRotateConfig("logs/app.log",
                            <<WithMaxSize(1), WithMaxBackups(1), WithMaxAge(1)>>),
     GetDefaultRotateConfig("logs/app.log", <<WithMaxBackups(0), WithMaxAge(0)>>)}

\* The calls of InitRotate, on a path that can be written, with the directory
\* there and the log file either missing or left by an earlier run; `last`
\* holds the RotateConfig the sink has been built from.
InitRetention ==
    /\ fs \in {MkFS(TRUE, TRUE, FALSE, 0), MkFS(TRUE, TRUE, TRUE, 1)}
    /\ \E config \in RetentionConfigs :
          /\ lj = NewLumberjack(config)
          /\ \/ /\ zl = NewRotatingLogger(config).baseLogger
                /\ rl = NewRotatingLogger(config).rl
                /\ last = [LastOf("NewRotatingLogger") EXCEPT
                              !.options = <<config>>]
             \/ \E format \in FormatTypes :
                   /\ zl = NewRotatingLoggerWithFormat(config, format).baseLogger
                   /\ rl = NewRotatingLoggerWithFormat(config, format).rl
                   /\ last = [LastOf("NewRotatingLoggerWithFormat") EXCEPT
                                 !.options = <<config>>]
             \/ /\ zl = NewWithOptions(<<WithRotation(config)>>)
                /\ rl = NoRotatingLogger
                /\ last = [LastOf("New") EXCEPT !.options = <<config>>]
             \/ \E format \in FormatTypes :
                   /\ zl = NewWithOptions(<<WithRotationAndFormat(config, format)>>)
                   /\ rl = NoRotatingLogger
                   /\ last = [LastOf("New") EXCEPT !.options = <<config>>]
    /\ written = [s \in Sinks \cup {Lumberjack} |-> 0]
    /\ spans = [s \in SpanNames |-> [events |-> 0, status |-> NoStatus]]
    /\ exited = FALSE
    /\ h = NoAdapter
    /\ call = NoCall
    /\ g = NoGoroutines

NextRetention ==
    \/ Rotate
    \/ millRun
    \/ Tick
    \/ \E opt \in ConfigChanges : RotateConfigOption(opt)
    \/ \E level \in RotateLevels : RotatingLogger_SetLevel(level)
    \/ \E w \in RotateSinks : RotatingLogger_SetOutput(w)
    \/ \E v \in PlainArgs : baseLogger(Info(v))
    \/ \E format \in Formats, v \in FormatArgs :
          baseLogger(CtxErrorf(TracedCtx, format, v))
    \/ \E level \in RotateLevels : SetLevel(level) /\ HoldsZLogger
    \/ \E w \in RotateSinks : SetOutput(w) /\ HoldsZLogger
    \/ \E v \in PlainArgs : Info(v) /\ HoldsZLogger

SpecRetention == InitRetention /\ [][NextRetention]_vars

\* --------------------------------------------------------- the HlogAdapter

\* The address of the ZLogger (the model has one ZLogger object).
TheZLogger == "zl"

\* NewHlogAdapter(zlogger)
NewHlogAdapter(zlogger) == [logger |-> zlogger]

\* What a method of the adapter leaves in `call`, and that it touches nothing
\* of the adapter or of a RotatingLogger.
Called(method, args) ==
    /\ h.logger = TheZLogger
    /\ call' = [via |-> "HlogAdapter", method |-> method, args |-> args]
    /\ UNCHANGED <<rl, h, g>>

\* HlogAdapter.Trace .. HlogAdapter.SetOutput: h.logger.<Method>(...)
HlogAdapter_Trace(v) == Trace(v) /\ Called("Trace", <<v>>)
HlogAdapter_Debug(v) == Debug(v) /\ Called("Debug", <<v>>)
HlogAdapter_Info(v) == Info(v) /\ Called("Info", <<v>>)
\* HlogAdapter.Notice that forwards to Warn.
HlogAdapter_Notice_ToWarn(v) == Warn(v) /\ Called("Notice", <<v>>)

HlogAdapter_Notice(v) == Notice(v) /\ Called("Notice", <<v>>)
HlogAdapter_Warn(v) == Warn(v) /\ Called("Warn", <<v>>)
HlogAdapter_Error(v) == Error(v) /\ Called("Error", <<v>>)
HlogAdapter_Fatal(v) == Fatal(v) /\ Called("Fatal", <<v>>)
HlogAdapter_Tracef(format, v) ==
    Tracef(format, v) /\ Called("Tracef", <<format, v>>)
HlogAdapter_Debugf(format, v) ==
    Debugf(format, v) /\ Called("Debugf", <<format, v>>)
HlogAdapter_Infof(format, v) ==
    Infof(format, v) /\ Called("Infof", <<format, v>>)
HlogAdapter_Noticef(format, v) ==
    Noticef(format, v) /\ Called("Noticef", <<format, v>>)
HlogAdapter_Warnf(format, v) ==
    Warnf(format, v) /\ Called("Warnf", <<format, v>>)
HlogAdapter_Errorf(format, v) ==
    Errorf(format, v) /\ Called("Errorf", <<format, v>>)
HlogAdapter_Fatalf(format, v) ==
    Fatalf(format, v) /\ Called("Fatalf", <<format, v>>)
HlogAdapter_CtxTracef(ctx, format, v) ==
    CtxTracef(ctx, format, v) /\ Called("CtxTracef", <<ctx, format, v>>)
HlogAdapter_CtxDebugf(ctx, format, v) ==
    CtxDebugf(ctx, format, v) /\ Called("CtxDebugf", <<ctx, format, v>>)
HlogAdapter_CtxInfof(ctx, format, v) ==
    CtxInfof(ctx, format, v) /\ Called("CtxInfof", <<ctx, format, v>>)
HlogAdapter_CtxNoticef(ctx, format, v) ==
    CtxNoticef(ctx, format, v) /\ Called("CtxNoticef", <<ctx, format, v>>)
HlogAdapter_CtxWarnf(ctx, format, v) ==
    CtxWarnf(ctx, format, v) /\ Called("CtxWarnf", <<ctx, format, v>>)
HlogAdapter_CtxErrorf(ctx, format, v) ==
    CtxErrorf(ctx, format, v) /\ Called("CtxErrorf", <<ctx, format, v>>)
HlogAdapter_CtxFatalf(ctx, format, v) ==
    CtxFatalf(ctx, format, v) /\ Called("CtxFatalf", <<ctx, format, v>>)
HlogAdapter_SetLevel(level) == SetLevel(level) /\ Called("SetLevel", <<level>>)
HlogAdapter_SetOutput(w) == SetOutput(w) /\ Called("SetOutput", <<w>>)

\* The arguments of the calls made on the adapter and on the ZLogger.
AdapterArgs == {<<"m", "1">>, <<"x">>}
AdapterFormats == {<<"m=", "%v">>, <<"f">>}
AdapterContexts == {Background, TracedCtx}
AdapterLevels == {LevelDebug, LevelWarn, LevelFatal}

\* zlogger := New(...); adapter := NewHlogAdapter(zlogger)
InitAdapter ==
    /\ \E format \in FormatTypes : zl = New("buf", LevelInfo, format, <<>>)
    /\ h = NewHlogAdapter(TheZLogger)
    /\ written = [s \in Sinks |-> 0]
    /\ spans = [s \in SpanNames |-> [events |-> 0, status |-> NoStatus]]
    /\ exited = FALSE
    /\ last = LastOf("New")
    /\ lj = NoLumberjack
    /\ fs = MkFS(TRUE, TRUE, FALSE, 0)
    /\ rl = NoRotatingLogger
    /\ call = NoCall
    /\ g = NoGoroutines

\* Calls made through the adapter and calls made on the ZLogger, in any order.
NextAdapter ==
    \/ \E level \in AdapterLevels : HlogAdapter_SetLevel(level)
    \/ \E w \in Sinks : HlogAdapter_SetOutput(w)
    \/ \E v \in AdapterArgs : HlogAdapter_Trace(v)
    \/ \E v \in AdapterArgs : HlogAdapter_Debug(v)
    \/ \E v \in AdapterArgs : HlogAdapter_Info(v)
    \/ \E v \in AdapterArgs : HlogAdapter_Notice(v)
    \/ \E v \in AdapterArgs : HlogAdapter_Warn(v)
    \/ \E v \in AdapterArgs : HlogAdapter_Error(v)
    \/ \E v \in AdapterArgs : HlogAdapter_Fatal(v)
    \/ \E format \in AdapterFormats, v \in FormatArgs : HlogAdapter_Tracef(format, v)
    \/ \E format \in AdapterFormats, v \in FormatArgs : HlogAdapter_Debugf(format, v)
    \/ \E format \in AdapterFormats, v \in FormatArgs : HlogAdapter_Infof(format, v)
    \/ \E format \in AdapterFormats, v \in FormatArgs : HlogAdapter_Noticef(format, v)
    \/ \E format \in AdapterFormats, v \in FormatArgs : HlogAdapter_Warnf(format, v)
    \/ \E format \in AdapterFormats, v \in FormatArgs : HlogAdapter_Errorf(format, v)
    \/ \E format \in AdapterFormats, v \in FormatArgs : HlogAdapter_Fatalf(format, v)
    \/ \E ctx \in AdapterContexts, format \in AdapterFormats, v \in FormatArgs :
          HlogAdapter_CtxTracef(ctx, format, v)
    \/ \E ctx \in AdapterContexts, format \in AdapterFormats, v \in FormatArgs :
          HlogAdapter_CtxDebugf(ctx, format, v)
    \/ \E ctx \in AdapterContexts, format \in AdapterFormats, v \in FormatArgs :
          HlogAdapter_CtxInfof(ctx, format, v)
    \/ \E ctx \in AdapterContexts, format \in AdapterFormats, v \in FormatArgs :
          HlogAdapter_CtxNoticef(ctx, format, v)
    \/ \E ctx \in AdapterContexts, format \in AdapterFormats, v \in FormatArgs :
          HlogAdapter_CtxWarnf(ctx, format, v)
    \/ \E ctx \in AdapterContexts, format \in AdapterFormats, v \in FormatArgs :
          HlogAdapter_CtxErrorf(ctx, format, v)
    \/ \E ctx \in AdapterContexts, format \in AdapterFormats, v \in FormatArgs :
          HlogAdapter_CtxFatalf(ctx, format, v)
    \/ \E level \in AdapterLevels : SetLevel(level) /\ Direct
    \/ \E w \in Sinks : SetOutput(w) /\ Direct
    \/ \E v \in AdapterArgs : Trace(v) /\ Direct
    \/ \E v \in AdapterArgs : Debug(v) /\ Direct
    \/ \E v \in AdapterArgs : Info(v) /\ Direct
    \/ \E v \in AdapterArgs : Notice(v) /\ Direct
    \/ \E v \in AdapterArgs : Warn(v) /\ Direct
    \/ \E v \in AdapterArgs : Error(v) /\ Direct
    \/ \E v \in AdapterArgs : Fatal(v) /\ Direct
    \/ \E format \in AdapterFormats, v \in FormatArgs : Tracef(format, v) /\ Direct
    \/ \E format \in AdapterFormats, v \in FormatArgs : Debugf(format, v) /\ Direct
    \/ \E format \in AdapterFormats, v \in FormatArgs : Infof(format, v) /\ Direct
    \/ \E format \in AdapterFormats, v \in FormatArgs : Noticef(format, v) /\ Direct
    \/ \E format \in AdapterFormats, v \in FormatArgs : Warnf(format, v) /\ Direct
    \/ \E format \in AdapterFormats, v \in FormatArgs : Errorf(format, v) /\ Direct
    \/ \E format \in AdapterFormats, v \in FormatArgs : Fatalf(format, v) /\ Direct
    \/ \E ctx \in AdapterContexts, format \in AdapterFormats, v \in FormatArgs :
          CtxTracef(ctx, format, v) /\ Direct
    \/ \E ctx \in AdapterContexts, format \in AdapterFormats, v \in FormatArgs :
          CtxDebugf(ctx, format, v) /\ Direct
    \/ \E ctx \in AdapterContexts, format \in AdapterFormats, v \in FormatArgs :
          CtxInfof(ctx, format, v) /\ Direct
    \/ \E ctx \in AdapterContexts, format \in AdapterFormats, v \in FormatArgs :
          CtxNoticef(ctx, format, v) /\ Direct
    \/ \E ctx \in AdapterContexts, format \in AdapterFormats, v \in FormatArgs :
          CtxWarnf(ctx, format, v) /\ Direct
    \/ \E ctx \in AdapterContexts, format \in AdapterFormats, v \in FormatArgs :
          CtxErrorf(ctx, format, v) /\ Direct
    \/ \E ctx \in AdapterContexts, format \in AdapterFormats, v \in FormatArgs :
          CtxFatalf(ctx, format, v) /\ Direct

SpecAdapter == InitAdapter /\ [][NextAdapter]_vars

\* ------------------------------------------------------------------ claims

IsLogCall == last.op = "log"
IsCtxCall == last.op = "log" /\ last.kind = "ctx"

\* C1 as stated: a call at level L produces a record if and only if L is at or
\* above the minimum level M in the seven-level order.
C1_EmittedIffAtOrAboveMinimum ==
    IsLogCall => (last.emitted <=> last.arg >= zl.level)

\* C1, amended: a plain, formatted or context-aware call at level L under the
\* minimum level M writes one record to the logger's sink if and only if L is
\* at or above M in the seven-level order, or L is Notice and M is Warn (a
\* Notice call is logged at the engine's Warn level); otherwise no sink
\* receives anything.
C1_EmittedIffAtOrAboveCollapsedMinimum ==
    [][last'.op = "log" =>
        LET emit == \/ last'.arg >= zl.level
                    \/ (last'.arg = LevelNotice /\ zl.level = LevelWarn)
        IN /\ last'.emitted = emit
           /\ written' = IF emit
                         THEN [written EXCEPT ![zl.logger.w.out] = @ + 1]
                         ELSE written]_vars

\* A Notice call under the minimum level Warn has written a record, and so has
\* a Warn call under the minimum level Notice.
C1_NoticeEmittedUnderWarn ==
    /\ IsLogCall
    /\ last.arg = LevelNotice
    /\ zl.level = LevelWarn
    /\ last.emitted
    /\ written[last.w] > 0

\* C2: every log call, Fatal included, returns to its caller: the process is
\* not terminated by it.
C2_EveryLogCallReturns ==
    IsLogCall => (last.returned /\ ~exited)

C4_SetLevelTakesEffectAndKeepsTheRest ==
    /\ [](zl.logger.level = toZerologLevel(zl.level))
    /\ [][/\ (last'.op = "SetLevel" =>
                /\ zl'.level = last'.arg
                /\ zl'.logger.w = zl.logger.w
                /\ zl'.logger.context = zl.logger.context
                /\ zl'.format = zl.format
                /\ written' = written
                /\ spans' = spans)
          /\ (last'.op # "SetLevel" => zl'.level = zl.level)
          /\ (last'.op = "log" =>
                (last'.emitted <=>
                   \/ last'.arg >= zl.level
                   \/ (last'.arg = LevelNotice /\ zl.level = LevelWarn)))]_vars

\* SetLevel(Error) has just run on a logger that carries an enrichment field
\* and has already written a record.
C4_SetLevelOnEnrichedLogger ==
    /\ last.op = "SetLevel"
    /\ last.arg = LevelError
    /\ zl.logger.level = ErrorLevel
    /\ \E i \in DOMAIN zl.logger.context : zl.logger.context[i][1] = "service"
    /\ TotalWritten = 1

\* The span a context-aware call sees, and whether it is valid.
LastSpan == SpanFromContext(last.ctx)
LastSpanValid == SpanContextIsValid(SpanContextOf(LastSpan))

\* C5: once a context-aware call on a context with a valid span has returned,
\* either the record was written and the event was added to the span, or
\* neither happened.
C5_RecordAndEventTogether ==
    (IsCtxCall /\ LastSpanValid /\ last.returned) =>
        (last.emitted <=> last.event # NoEvent)

\* C6: on a valid span CtxErrorf adds one event and sets the status to Error
\* with the formatted message; CtxTracef, CtxDebugf, CtxInfof, CtxNoticef and
\* CtxWarnf add one event and leave the status unchanged; without a valid span
\* no context-aware call adds an event or sets a status.
C6_SpanAnnotation ==
    [][(last'.op = "log" /\ last'.kind = "ctx") =>
        LET span == SpanFromContext(last'.ctx)
            msg == Sprintf(last'.format, last'.v)
        IN IF ~SpanContextIsValid(SpanContextOf(span))
           THEN spans' = spans /\ last'.event = NoEvent
           ELSE last'.method # "CtxFatalf" =>
                /\ spans'[span.name].events = spans[span.name].events + 1
                /\ last'.event.message = msg
                /\ \A n \in SpanNames \ {span.name} : spans'[n] = spans[n]
                /\ spans'[span.name].status =
                      IF last'.method = "CtxErrorf"
                      THEN [code |-> "Error", description |-> msg]
                      ELSE spans[span.name].status]_vars

\* CtxErrorf has just run on a context with a valid span: the span has an
\* event and the status Error.
C6_ErrorfMarkedSpan ==
    /\ IsCtxCall
    /\ last.method = "CtxErrorf"
    /\ LastSpanValid
    /\ spans[LastSpan.name].events = 1
    /\ spans[LastSpan.name].status.code = "Error"

\* C7: when CtxFatalf on a context with a valid span has ended, the record is
\* written, an event of level fatal is added to the span and the span's status
\* is Error.
C7_FatalfAnnotatesSpan ==
    (IsCtxCall /\ last.method = "CtxFatalf" /\ LastSpanValid) =>
        /\ last.emitted
        /\ last.event.level = "fatal"
        /\ spans[LastSpan.name].events > 0
        /\ spans[LastSpan.name].status.code = "Error"

HexChars == {"0", "1", "2", "3", "4", "5", "6", "7", "8", "9",
             "a", "b", "c", "d", "e", "f"}

\* C8: getOtelFields is defined for every context and returns exactly:
\* request_id iff a request id is set in the context (under ReqIDKey), with its
\* value; trace_id and span_id iff the span is valid; trace_flags iff the span
\* is valid and its flags are not zero, as two lowercase hex characters that
\* encode the flags; nothing for a nil context or one with neither.
C8_ExtractedFields ==
    last.op = "getOtelFields" =>
        LET ctx == last.ctx
            f == last.fields
            hasReq == ~ctx.nil /\ ReqIDKey \in DOMAIN ctx.values
            valid == /\ ~ctx.nil
                     /\ ctx.span.traceID # 0
                     /\ ctx.span.spanID # 0
        IN /\ DOMAIN f \subseteq {"request_id", "trace_id", "span_id", "trace_flags"}
           /\ ("request_id" \in DOMAIN f <=> hasReq)
           /\ (hasReq => f["request_id"] = ctx.values[ReqIDKey])
           /\ ("trace_id" \in DOMAIN f <=> valid)
           /\ ("span_id" \in DOMAIN f <=> valid)
           /\ (valid => /\ f["trace_id"] = IDString(ctx.span.traceID)
                        /\ f["span_id"] = IDString(ctx.span.spanID))
           /\ ("trace_flags" \in DOMAIN f <=> (valid /\ ctx.span.traceFlags # 0))
           /\ ("trace_flags" \in DOMAIN f =>
                 \E hi \in 0..15, lo \in 0..15 :
                    /\ hi * 16 + lo = ctx.span.traceFlags
                    /\ HexDigits[hi + 1] \in HexChars
                    /\ HexDigits[lo + 1] \in HexChars
                    /\ f["trace_flags"] = HexDigits[hi + 1] \o HexDigits[lo + 1])
           /\ ((ctx.nil \/ (~valid /\ ~hasReq)) => DOMAIN f = {})

\* getOtelFields has returned all four entries, and the flags 255 as "ff".
C8_AllFourFields ==
    /\ last.op = "getOtelFields"
    /\ DOMAIN last.fields = {"request_id", "trace_id", "span_id", "trace_flags"}
    /\ last.fields["trace_flags"] = "ff"

\* C9: a context-aware call whose context carries a request id under the key
\* "request_id", as the README and the package test store it and as
\* getContextFields reads it, attaches request_id with that value to the
\* record it writes.
C9_ReadmeRequestIdAttached ==
    (IsCtxCall /\ last.emitted) =>
        \A k \in DOMAIN getContextFields(last.ctx) :
            k = "request_id" =>
                /\ k \in DOMAIN last.rec.fields
                /\ last.rec.fields[k] = getContextFields(last.ctx)[k]

ContextKeys == {"request_id", "trace_id", "span_id", "trace_flags"}

\* C10: the record of a plain or formatted call carries no context field, and
\* the record of a context-aware call carries only context fields taken from
\* the context passed to that call, whatever ran before.
C10_NoContextFieldKept ==
    (IsLogCall /\ last.emitted) =>
        LET kept == {last.rec.context[i] : i \in DOMAIN last.rec.context}
            attached == {p \in kept : p[1] \in ContextKeys}
                        \cup {<<k, last.rec.fields[k]>> : k \in DOMAIN last.rec.fields}
            own == IF last.kind = "ctx"
                   THEN {<<k, getOtelFields(last.ctx)[k]>> :
                            k \in DOMAIN getOtelFields(last.ctx)}
                   ELSE {}
        IN attached \subseteq own

\* C17: a level mapped to the engine's scheme and back is the level itself
\* for Trace, Debug, Info, Warn, Error and Fatal, and Warn for Notice.
C17_RoundTrip ==
    (last.op = "roundTrip" /\ last.arg \in HertzLevels) =>
        last.res = IF last.arg = LevelNotice THEN LevelWarn ELSE last.arg

EngineLevels == {TraceLevel, DebugLevel, InfoLevel, WarnLevel, ErrorLevel, FatalLevel}

\* The hertz level a log method is named after.
MethodLevel(method) ==
    CASE method \in {"Trace", "Tracef", "CtxTracef"} -> LevelTrace
      [] method \in {"Debug", "Debugf", "CtxDebugf"} -> LevelDebug
      [] method \in {"Info", "Infof", "CtxInfof"} -> LevelInfo
      [] method \in {"Notice", "Noticef", "CtxNoticef"} -> LevelNotice
      [] method \in {"Warn", "Warnf", "CtxWarnf"} -> LevelWarn
      [] method \in {"Error", "Errorf", "CtxErrorf"} -> LevelError
      [] method \in {"Fatal", "Fatalf", "CtxFatalf"} -> LevelFatal

\* C18: toZerologLevel maps Trace, Debug, Info, Warn, Error and Fatal to the
\* engine level of the same name and Notice to Warn, maps every other value to
\* an engine level (Info), and never maps a more severe of the seven levels to
\* a less severe engine level; the record a log method writes carries the
\* engine level toZerologLevel gives for the method's level.
C18_LevelMapping ==
    /\ last.op = "toZerologLevel" =>
          /\ last.res \in EngineLevels
          /\ last.res = CASE last.arg = LevelTrace -> TraceLevel
                          [] last.arg = LevelDebug -> DebugLevel
                          [] last.arg = LevelInfo -> InfoLevel
                          [] last.arg = LevelNotice -> WarnLevel
                          [] last.arg = LevelWarn -> WarnLevel
                          [] last.arg = LevelError -> ErrorLevel
                          [] last.arg = LevelFatal -> FatalLevel
                          [] OTHER -> InfoLevel
          /\ \A lower \in HertzLevels :
                (last.arg \in HertzLevels /\ lower <= last.arg) =>
                    toZerologLevel(lower) <= last.res
    /\ (IsLogCall /\ last.emitted) =>
          /\ last.arg = MethodLevel(last.method)
          /\ last.rec.level = LevelString(toZerologLevel(MethodLevel(last.method)))

\* toZerologLevel has been applied to a value outside the seven levels and has
\* given Info.
C18_OutOfRangeMapsToInfo ==
    /\ last.op = "toZerologLevel"
    /\ last.arg = LevelFatal + 1
    /\ last.res = InfoLevel

\* C14: SetOutput changes only the destination: every field the logger
\* attaches to its records before SetOutput (the timestamp, the caller and the
\* fields added by the enrichment functions given to New) is attached to them
\* after it.
C14_SetOutputKeepsEnrichment ==
    [][last'.op = "SetOutput" =>
        \A i \in DOMAIN zl.logger.context :
            zl.logger.context[i][1] \notin ContextKeys =>
                \E j \in DOMAIN zl'.logger.context :
                    zl'.logger.context[j] = zl.logger.context[i]]_vars

\* Reading a line of JSON back. The number of backslashes that end at
\* position i of the text.
RECURSIVE BackslashesAt(_, _)
BackslashesAt(text, i) ==
    IF i < 1 \/ SubSeq(text, i, i) # "\\" THEN 0
    ELSE 1 + BackslashesAt(text, i - 1)

\* The positions of the quotes that open or close a string: those not escaped.
StringQuotes(text) ==
    {i \in 1..Len(text) :
        SubSeq(text, i, i) = "\"" /\ BackslashesAt(text, i - 1) % 2 = 0}

\* The escapes of a JSON string undone.
RECURSIVE JSONUnescape(_)
JSONUnescape(str) ==
    IF Len(str) = 0 THEN ""
    ELSE IF SubSeq(str, 1, 1) = "\\"
         THEN (IF SubSeq(str, 2, 2) = "n" THEN "\n" ELSE SubSeq(str, 2, 2))
              \o JSONUnescape(SubSeq(str, 3, Len(str)))
         ELSE SubSeq(str, 1, 1) \o JSONUnescape(SubSeq(str, 2, Len(str)))

\* The text is one line that ends with a line break and holds one object of
\* string fields, "key":"value" separated by commas.
OneObject(text) ==
    LET n == Len(text)
        quotes == StringQuotes(text)
        before(i) == Cardinality({q \in quotes : q < i})
        inString(i) == i \notin quotes /\ before(i) % 2 = 1
    IN /\ n >= 3
       /\ SubSeq(text, n, n) = "\n"
       /\ SubSeq(text, 1, 1) = "{"
       /\ SubSeq(text, n - 1, n - 1) = "}"
       /\ Cardinality(quotes) % 4 = 0
       /\ \A i \in 1..(n - 1) :
             LET c == SubSeq(text, i, i)
             IN /\ c # "\n"
                /\ (inString(i) /\ c = "\\" /\ BackslashesAt(text, i - 1) % 2 = 0)
                      => SubSeq(text, i + 1, i + 1) \in {"n", "\"", "\\"}
                /\ (~inString(i) /\ i \notin quotes) =>
                      \/ c = "{" /\ i = 1
                      \/ c = "}" /\ i = n - 1
                      \/ c = ":" /\ before(i) % 4 = 2
                      \/ c = "," /\ before(i) % 4 = 0 /\ i > 1

\* The values of the message fields of the object a line holds.
MessagesOf(text) ==
    LET quotes == StringQuotes(text)
        before(i) == Cardinality({q \in quotes : q < i})
        at(k) == CHOOSE q \in quotes : before(q) = k - 1
        str(k) == JSONUnescape(SubSeq(text, at(2 * k - 1) + 1, at(2 * k) - 1))
        count == Cardinality(quotes) \div 2
    IN {str(k + 1) : k \in {j \in 1..count : j % 2 = 1 /\ str(j) = "message"}}

\* A line of the text begins with an opening brace.
SomeLineBeginsWithBrace(text) ==
    \/ SubSeq(text, 1, 1) = "{"
    \/ \E i \in 1..(Len(text) - 1) :
          SubSeq(text, i, i) = "\n" /\ SubSeq(text, i + 1, i + 1) = "{"

\* The message given to the last log call.
LastMessage ==
    IF last.kind = "plain" THEN Sprint(last.v) ELSE Sprintf(last.format, last.v)

\* The format given to New by its options; ConsoleFormat when none is.
RECURSIVE FormatPassed(_, _)
FormatPassed(options, format) ==
    IF options = <<>> THEN format
    ELSE FormatPassed(Tail(options),
                      IF "format" \in DOMAIN Head(options)
                      THEN Head(options).format ELSE format)

\* C19 as stated: a JSON logger writes each record as one line holding one
\* well-formed object whose message field is the logged message; no line a
\* console logger writes begins with an opening brace; the format stored in
\* the logger is the format passed to New (ConsoleFormat when none is).
C19_OutputFormat ==
    /\ (IsLogCall /\ last.emitted /\ zl.format = JSONFormat) =>
          /\ OneObject(Render(last.rec))
          /\ MessagesOf(Render(last.rec)) = {LastMessage}
    /\ (IsLogCall /\ last.emitted /\ zl.format = ConsoleFormat) =>
          ~SomeLineBeginsWithBrace(Render(last.rec))
    /\ last.op = "New" => zl.format = FormatPassed(last.options, ConsoleFormat)

\* C19, amended: a JSON logger writes each record as one line holding one
\* well-formed object, whose message field is the logged message when that is
\* not empty and which has no message field when it is empty; no record a
\* console logger writes begins with an opening brace, and a line of a record
\* begins with one only when the logged message itself holds a line break
\* followed by an opening brace; the format stored in the logger is the format
\* passed to New (ConsoleFormat when none is) and no operation changes it.
C19_OutputFormatOfRecords ==
    /\ (IsLogCall /\ last.emitted /\ zl.format = JSONFormat) =>
          /\ OneObject(Render(last.rec))
          /\ MessagesOf(Render(last.rec)) =
                (IF LastMessage = "" THEN {} ELSE {LastMessage})
    /\ (IsLogCall /\ last.emitted /\ zl.format = ConsoleFormat) =>
          /\ SubSeq(Render(last.rec), 1, 1) # "{"
          /\ SomeLineBeginsWithBrace(Render(last.rec)) =>
                SomeLineBeginsWithBrace("." \o LastMessage)
    /\ last.op = "New" => zl.format = FormatPassed(last.options, ConsoleFormat)
    /\ last.op # "New" => zl.format \in FormatTypes

\* A JSON logger has written, to the sink SetOutput gave it, a record whose
\* message holds a line break followed by a brace.
C19_JSONRecordWithLineBreak ==
    /\ IsLogCall
    /\ last.emitted
    /\ zl.format = JSONFormat
    /\ last.w = Stdout
    /\ SomeLineBeginsWithBrace("." \o LastMessage)

\* The sink of the logger is a rotating sink whose path cannot be written.
SinkFails == zl.logger.w.out = Lumberjack /\ ~fs.usable

\* C11: while the sink fails, a log call that the level filter lets through
\* writes nothing anywhere, leaves the logger on the same sink and the file
\* system as it was, and, below Fatal, returns; SetOutput(w), of the ZLogger or
\* of the RotatingLogger, puts the logger on w, and a call let through on a
\* sink that works adds its record to that sink and to no other.
C11_BrokenSinkDropsUntilSetOutput ==
    [][/\ (last'.op = "log" /\ last'.emitted /\ SinkFails) =>
             /\ written' = written
             /\ fs' = fs
             /\ zl' = zl
             /\ (last'.arg # LevelFatal => (last'.returned /\ ~exited'))
       /\ (last'.op \in {"SetOutput", "RotatingLogger.SetOutput"} =>
             /\ zl'.logger.w.out = last'.w
             /\ written' = written)
       /\ (last'.op = "log" /\ last'.emitted /\ ~SinkFails) =>
             /\ written'[zl.logger.w.out] = written[zl.logger.w.out] + 1
             /\ \A s \in DOMAIN written \ {zl.logger.w.out} :
                   written'[s] = written[s]]_vars

\* A record has reached buf, the sink SetOutput installed, and the call that
\* ran last, on the rotating sink again, lost its record: the path is not
\* usable and no file has received anything.
C11_DroppedThenWritten ==
    /\ IsLogCall
    /\ last.emitted
    /\ last.returned
    /\ last.w = Lumberjack
    /\ ~fs.usable
    /\ written[Lumberjack] = 0
    /\ written["buf"] = 1

\* C12: Rotate returns nil exactly when the file has been rotated: the live
\* file (if there was one) has become a backup and a fresh, empty live file
\* is open under the original name; it returns an error when the path cannot
\* be written, and then nothing on disk has changed.
C12_RotateReportsOutcome ==
    [][last'.op = "Rotate" =>
        LET rotated == /\ fs'.dir /\ fs'.exists /\ fs'.size = 0
                       /\ lj'.open /\ lj'.size = 0
                       /\ Len(fs'.backups) >= Len(fs.backups)
                       /\ (fs.exists => Len(fs'.backups) >= 1)
        IN /\ (last'.err = NoError) <=> rotated
           /\ (last'.err = NoError) <=> fs.usable
           /\ (last'.err # NoError) => fs' = fs]_vars

\* Rotate has returned nil after a record was written: there is a backup and
\* the live file is empty.
C12_RotatedAfterWrite ==
    /\ last.op = "Rotate"
    /\ last.err = NoError
    /\ written[Lumberjack] = 1
    /\ Len(fs.backups) = 1
    /\ fs.size = 0

\* C13: RotatingLogger.SetOutput(w) keeps the format chosen at construction
\* and the minimum level: the base logger has the same format, writes records
\* of the same shape, and filters by the same level as before, on the sink w.
C13_RotatingSetOutputKeepsFormatAndLevel ==
    [][last'.op = "RotatingLogger.SetOutput" =>
        /\ zl'.format = zl.format
        /\ zl'.logger.w.console = zl.logger.w.console
        /\ zl'.level = zl.level
        /\ zl'.logger.level = zl.logger.level
        /\ zl'.logger.w.out = last'.w]_vars

IsRotatingConstructor ==
    last.op \in {"NewRotatingLogger", "NewRotatingLoggerWithFormat"}

\* C15: once NewRotatingLogger or NewRotatingLoggerWithFormat has returned on
\* a path that can be written, the parent directory of the log file exists.
C15_DirectoryCreatedByConstructor ==
    (IsRotatingConstructor /\ fs.usable) => fs.dir

\* C16: when the directory cannot be created or the file cannot be opened,
\* the constructor of the rotating logger reports it to its caller: it
\* returns an error or does not return.
C16_ConstructionFailureSurfaced ==
    (IsRotatingConstructor /\ ~fs.usable) =>
        (last.err # NoError \/ ~last.returned)

\* The step is the ZLogger's method of that name, called with those arguments.
ZLoggerMethod(method, args) ==
    CASE method = "SetLevel" -> SetLevel(args[1])
      [] method = "SetOutput" -> SetOutput(args[1])
      [] method = "Trace" -> Trace(args[1])
      [] method = "Debug" -> Debug(args[1])
      [] method = "Info" -> Info(args[1])
      [] method = "Notice" -> Notice(args[1])
      [] method = "Warn" -> Warn(args[1])
      [] method = "Error" -> Error(args[1])
      [] method = "Fatal" -> Fatal(args[1])
      [] method = "Tracef" -> Tracef(args[1], args[2])
      [] method = "Debugf" -> Debugf(args[1], args[2])
      [] method = "Infof" -> Infof(args[1], args[2])
      [] method = "Noticef" -> Noticef(args[1], args[2])
      [] method = "Warnf" -> Warnf(args[1], args[2])
      [] method = "Errorf" -> Errorf(args[1], args[2])
      [] method = "Fatalf" -> Fatalf(args[1], args[2])
      [] method = "CtxTracef" -> CtxTracef(args[1], args[2], args[3])
      [] method = "CtxDebugf" -> CtxDebugf(args[1], args[2], args[3])
      [] method = "CtxInfof" -> CtxInfof(args[1], args[2], args[3])
      [] method = "CtxNoticef" -> CtxNoticef(args[1], args[2], args[3])
      [] method = "CtxWarnf" -> CtxWarnf(args[1], args[2], args[3])
      [] method = "CtxErrorf" -> CtxErrorf(args[1], args[2], args[3])
      [] method = "CtxFatalf" -> CtxFatalf(args[1], args[2], args[3])
      [] OTHER -> FALSE

\* C20: a call made on the adapter is the call of the ZLogger's method of the
\* same name with the same arguments, on the ZLogger the adapter was built
\* with, and changes nothing of the adapter; so, whichever way the calls are
\* made, SetLevel(L) makes L the minimum level, SetOutput(w) makes w the sink,
\* and a log call is filtered by the minimum level and written to the sink
\* that the latest SetLevel and SetOutput, made either way, have set.
C20_AdapterDelegates ==
    [][/\ (call'.via = "HlogAdapter" =>
             /\ ZLoggerMethod(call'.method, call'.args)
             /\ h' = h
             /\ h.logger = TheZLogger)
       /\ (last'.op = "SetLevel" =>
             /\ zl'.level = last'.arg
             /\ zl'.logger.level = toZerologLevel(last'.arg))
       /\ (last'.op = "SetOutput" => zl'.logger.w.out = last'.w)
       /\ (last'.op = "log" =>
             /\ last'.emitted <=>
                   toZerologLevel(last'.arg) >= toZerologLevel(zl.level)
             /\ last'.emitted =>
                   written'[zl.logger.w.out] = written[zl.logger.w.out] + 1)]_vars

\* CtxErrorf called on the adapter, after SetLevel and SetOutput, has written
\* a record to stdout under the minimum level Warn.
C20_CtxErrorfThroughAdapter ==
    /\ call.via = "HlogAdapter"
    /\ call.method = "CtxErrorf"
    /\ call.args[1] = TracedCtx
    /\ last.emitted
    /\ zl.level = LevelWarn
    /\ last.w = Stdout
    /\ written[Stdout] = 1

\* The rotation policy of a sink.
Policy(l) ==
    [Filename |-> l.Filename, MaxSize |-> l.MaxSize, MaxBackups |-> l.MaxBackups,
     MaxAge |-> l.MaxAge, Compress |-> l.Compress, LocalTime |-> l.LocalTime]

\* C21: the policy of the sink is the RotateConfig the sink has been built
\* from by NewRotatingLogger, NewRotatingLoggerWithFormat, WithRotation or
\* WithRotationAndFormat, and no step (a log call, SetLevel, SetOutput, Rotate,
\* a retention pass, the clock, a change of the RotateConfig) changes it.
\* (`last` holds the RotateConfig given until the first step is taken.)
C21_PolicyImmutable ==
    [][/\ (last.options # <<>> => Policy(lj) = last.options[1])
       /\ Policy(lj') = Policy(lj)]_vars

\* The RotateConfig of a RotatingLogger has been changed after construction
\* and differs from the policy of the sink, which has rotated the file and
\* taken a record since; the logger's output has just been replaced.
C21_ConfigChangedPolicyKept ==
    /\ rl.writer # Nil
    /\ rl.config # Policy(lj)
    /\ fs.rotations >= 1
    /\ written[Lumberjack] >= 1
    /\ last.op = "RotatingLogger.SetOutput"

WithinMaxAge(age) == lj.MaxAge = 0 \/ age <= lj.MaxAge

\* C23: with a max backup count of N >= 1, a retention pass keeps the newest
\* backups and deletes the oldest: it keeps at most N, none older than the max
\* age, and stops at whichever limit comes first; and once rotation has been
\* triggered N+2 times, with no backup older than the max age, exactly N
\* backups remain.
C23_Eviction ==
    [][(last'.op = "millRun" /\ lj.MaxBackups >= 1) =>
        LET N == lj.MaxBackups
            before == fs.backups
            after == fs'.backups
        IN /\ \E k \in 0..Len(before) :
                 /\ after = SubSeq(before, 1, k)
                 /\ k <= N
                 /\ \A i \in 1..k : WithinMaxAge(before[i])
                 /\ k < Len(before) => (k = N \/ ~WithinMaxAge(before[k + 1]))
           /\ (/\ fs.rotations >= N + 2
               /\ \A i \in DOMAIN before : WithinMaxAge(before[i])) =>
                    Len(after) = N]_vars

\* C26: Rotate and GetRotatingWriter of a RotatingLogger act on the sink its
\* log calls write to: the sink Rotate rotates, and the one GetRotatingWriter
\* returns, is the sink of the base logger.
C26_RotateActsOnCurrentSink ==
    [][/\ (last'.op = "Rotate" /\ last'.err = NoError) =>
             rl.writer = zl.logger.w.out
       /\ (last'.op = "GetRotatingWriter") => last'.w = zl.logger.w.out]_vars

\* A context-aware call has written a record and added an event to the span.
RecordAndEvent == IsCtxCall /\ last.emitted /\ last.event # NoEvent

\* C25 as stated: the event a context-aware call adds carries the message of
\* the record the call writes and, as its level, the level of that record.
C25_EventDescribesRecord ==
    RecordAndEvent =>
        /\ last.event.message = last.rec.message
        /\ last.event.level = last.rec.level

\* C25, amended: the event carries the message of the record and the name of
\* the severity of the method called, which is the level of the record for
\* every method but CtxNoticef, whose record has the level warn.
C25_EventDescribesCall ==
    RecordAndEvent =>
        /\ last.event.message = last.rec.message
        /\ last.event.level = CASE last.arg = LevelTrace -> "trace"
                                 [] last.arg = LevelDebug -> "debug"
                                 [] last.arg = LevelInfo -> "info"
                                 [] last.arg = LevelNotice -> "notice"
                                 [] last.arg = LevelWarn -> "warn"
                                 [] last.arg = LevelError -> "error"
                                 [] OTHER -> "fatal"
        /\ last.arg # LevelNotice => last.event.level = last.rec.level
        /\ last.arg = LevelNotice => last.rec.level = "warn"

\* CtxNoticef has written a warn record and added a notice event.
C25_NoticeEventWarnRecord ==
    /\ RecordAndEvent
    /\ last.method = "CtxNoticef"
    /\ last.event.level = "notice"
    /\ last.rec.level = "warn"
    /\ last.event.message = "m=1"

\* C27: a call of CtxInfofWithTrace or CtxErrorfWithTrace has the outcome of
\* the same call of CtxInfof or CtxErrorf: the record (level, message, the
\* fields CtxInfof and CtxErrorf attach from the context) and the event added
\* to the span and the status set on it.
C27_WithTraceEquivalent ==
    [][last'.method \in {"CtxInfofWithTrace", "CtxErrorfWithTrace"} =>
        LET lvl == IF last'.method = "CtxInfofWithTrace" THEN InfoLevel
                   ELSE ErrorLevel
            msg == Sprintf(last'.format, last'.v)
            span == SpanFromContext(last'.ctx)
            valid == SpanContextIsValid(SpanContextOf(span))
        IN /\ last'.emitted <=> should(zl.logger, lvl)
           /\ last'.emitted =>
                 last'.rec = Record(zl.logger, lvl, getOtelFields(last'.ctx), msg)
           /\ last'.event = IF valid
                            THEN [message |-> msg, level |-> LevelString(lvl)]
                            ELSE NoEvent
           /\ spans' = IF valid
                       THEN Annotate(span, msg, LevelString(lvl), lvl = ErrorLevel)
                       ELSE spans]_vars

\* C24: once SetLevel(L) and SetOutput(w), run by two goroutines, have both
\* returned, the stored level is L, the engine filters at L and writes to w,
\* and a log call is written, to w, exactly when its level is at or above L.
C24_NoLostUpdate ==
    BothReturned =>
        /\ zl.level = g.setLevel.level
        /\ zl.logger.level = toZerologLevel(zl.level)
        /\ zl.logger.w.out = g.setOutput.w
        /\ IsLogCall =>
              /\ last.emitted <=>
                    toZerologLevel(last.arg) >= toZerologLevel(g.setLevel.level)
              /\ last.w = g.setOutput.w

====
